---- MODULE Spec2Model ----
(***************************************************************************)
(* A model of the diagnostic-to-array pipeline of DART_state_space.py:     *)
(* the date-range reducer and variable-family router DART_diagn_to_array,  *)
(* the coordinate matcher loops and reduction pipelines of the plot        *)
(* functions, and the functions that write into the experiment dictionary. *)
(***************************************************************************)
EXTENDS Integers, Sequences, FiniteSets, TLC

\* ---------------------------------------------------------------- bounds
MaxLen == 3         \* longest E['daterange']
MaxDim == 2         \* longest axis of a loaded array

\* ---------------------------------------------------------------- dates
\* a datetime is <<month, day, hour>>; the requested dates are at hour 0
Dates == {<<1, 1, 0>>, <<1, 2, 0>>, <<2, 1, 0>>}

DateLT(a, b) ==
    \/ a[1] < b[1]
    \/ a[1] = b[1] /\ a[2] < b[2]
    \/ a[1] = b[1] /\ a[2] = b[2] /\ a[3] < b[3]

\* E['daterange']: ordered, strictly increasing
DateRanges ==
    { s \in UNION { [1..n -> Dates] : n \in 0..MaxLen } :
        \A i \in 1..(Len(s) - 1) : DateLT(s[i], s[i + 1]) }

\* datetime.datetime(dd.year,dd.month,1,12,0)
\* the stamp of the date itself, not of its month
MonthStamp_KeepsDay(dd) == dd

MonthStamp(dd) == <<dd[1], 1, 12>>

SeqRange(s) == { s[i] : i \in 1..Len(s) }

\* list(set(DRm)): the distinct elements, in whatever order the set iterates
SetOrders(S) ==
    { s \in [1..Cardinality(S) -> S] : \A x \in S : \E i \in 1..Cardinality(S) : s[i] = x }

\* ---------------------------------------------------------------- strings
ExpNames == {"ERA1.5", "NODA"}
IsERA(name) == name = "ERA1.5"                 \* 'ERA' in E['exp_name']

Variables == {"US", "VS", "T", "PS", "Nsq", "U", "VSTAR", "ws",
              "Nsq_wstar_forcing", "Nsq_forcing_Q"}
Diagns == {"Prior", "covariance", "Correlation",
           "anomaly.NODA", "climatology.NODA", "climatological_std.NODA"}
CopyStrings == {"ensemble mean"}

\* str.lower() on the diagnostics in use
Lower(s) ==
    CASE s = "Correlation" -> "correlation"
      [] s = "Prior" -> "prior"
      [] s = "Increment" -> "increment"
      [] OTHER -> s

\* str.upper() on the variables in use
Upper(s) ==
    CASE s = "ws" -> "WS"
      [] s = "Nsq" -> "NSQ"
      [] s = "Nsq_wstar_forcing" -> "NSQ_WSTAR_FORCING"
      [] s = "Nsq_forcing_Q" -> "NSQ_FORCING_Q"
      [] OTHER -> s

\* substring tests on E['diagn']
HasClimatology(d) == d = "climatology.NODA"
HasAnomaly(d) == d = "anomaly.NODA"
HasClimStd(d) == d = "climatological_std.NODA"

era_variables_list == {"U", "V", "Z", "T", "MSLP", "Z3", "ptrop", "Q", "O3", "Nsq", "brunt"}
dart_control_variables_list ==
    {"US", "VS", "T", "PS", "Q", "ptrop", "theta", "Nsq", "brunt", "P", "ztrop"}
tem_variables_list == {"VSTAR", "WSTAR", "FPHI", "FZ", "DELF"}
dynamical_heating_rates_list == {"VTY", "WS"}

\* ---------------------------------------------------------------- values
NoDate == <<0, 0, 0>>
\* the outcome of one loader call: which loader, for which date, asked for
\* which variable, which of its outputs, and whether it found its file
Call(l, d, v, p, f) == [ldr |-> l, date |-> d, var |-> v, part |-> p, found |-> f]
None == Call("None", NoDate, "", "", FALSE)
Unbound == Call("unbound", NoDate, "", "", FALSE)
\* the field a loader hands back: None when the file is absent
Field(c) == IF c.found THEN c ELSE None

None5 == [Vmatrix |-> <<None>>, lat |-> None, lon |-> None, lev |-> None,
          new_daterange |-> <<NoDate>>, none |-> TRUE]

VARIABLES
    E,              \* the experiment dictionary passed by the caller (mutable)
    Ecaller,        \* what the caller's dictionary held at the call
    py,             \* major version of the Python interpreter running the code
    ident,          \* whether the caller's variable string is the interned literal
    hnum,           \* result of waccm.history_file_lookup(E)
    DR,             \* the dates iterated
    idx,            \* position of the for loop in DR
    pc,             \* position in DART_diagn_to_array
    V, lat, lon, lev,   \* locals of DART_diagn_to_array
    Vlist,
    Vmatrix,
    new_daterange,
    ret,            \* the returned tuple
    printed,        \* number of 'Could not find any data' messages printed
    calls           \* loader calls made so far, in order

d2aVars == <<E, Ecaller, py, ident, hnum, DR, idx, pc, V, lat, lon, lev,
             Vlist, Vmatrix, new_daterange, ret, printed, calls>>

VARIABLES
    cfg,            \* the call of a plot function: function, variable, grid
    arr,            \* axes of the array now being reduced: <<[len, role], ...>>
    stash,          \* arrays kept aside: M1 (reduced primary), V (unscaled field)
    cur,            \* whose array arr is: E, Ediff, P, Pdiff or diff
    dims,           \* londim, latdim, levdim as last set by a matcher loop (0: unbound)
    ppc,            \* the next step of the plot function
    pstat,          \* run, done, rejected or raised
    ops             \* the array operations done so far, in order

plotVars == <<cfg, arr, stash, cur, dims, ppc, pstat, ops>>

vars == <<d2aVars, plotVars>>

\* ---------------------------------------------------------------- DART_diagn_to_array
\* the locals the router works on during one pass of the loop body
Frame(v, la, lo, le, ev, cs) ==
    [V |-> v, lat |-> la, lon |-> lo, lev |-> le, ftf |-> FALSE, Evar |-> ev, calls |-> cs,
     raised |-> FALSE]

\* V,lat,lon,lev = loader(E,date): every output comes from this one call
Load4(s, c) ==
    [s EXCEPT !.V = Field(c), !.lat = c, !.lon = c, !.lev = c, !.calls = Append(@, c)]

\* V,lat,lev = loader(E,date); lon = None
Load3(s, c) ==
    [s EXCEPT !.V = Field(c), !.lat = c, !.lon = None, !.lev = c, !.calls = Append(@, c)]

\* V,lat,lon,lev = compute_DART_diagn_from_model_h_files(E,date): with no field
\* found the function raises on its way to 'return None,None,None,None' (the
\* message it prints names copystring, which is bound nowhere)
LoadHist(s, c) ==
    IF s.raised THEN s
    ELSE IF c.found THEN Load4(s, c)
    ELSE [s EXCEPT !.raised = TRUE, !.calls = Append(@, c)]

\* E['variable'] is 'US': identity of string objects, true only of the very
\* same (interned) object
IsLiteral(ev, lit, same) == ev = lit /\ same

\* the reanalysis branch of the loop body
RouteERA(s, date, fNsq, fEra) ==
    LET s1 == IF s.Evar = "Nsq" THEN Load4(s, Call("Nsq", date, s.Evar, "", fNsq)) ELSE s
    IN  IF s1.V = Unbound                       \* 'V' not in locals()
        THEN Load4(s1, Call("ERA", date, s1.Evar, "", fEra))
        ELSE s1

\* covariances and correlations
RouteCov(s, diagn, date, f) ==
    IF Lower(diagn) = "covariance" \/ Lower(diagn) = "correlation"
    THEN LET part == IF Lower(diagn) = "covariance" THEN "Cov" ELSE "Corr"
         IN  [Load4(s, Call("cov", date, s.Evar, part, f)) EXCEPT !.ftf = TRUE]
    ELSE s

\* DART control variables are in the Prior_Diag and Posterior_Diag files
RouteDiag(s, date, f) ==
    IF s.Evar \in dart_control_variables_list
    THEN LET s1 == Load4(s, Call("diag", date, s.Evar, "", f))
         IN  [s1 EXCEPT !.ftf = (s1.V # None)]
    ELSE s

\* the same without the upper-casing of the variable name
RouteTEM_CaseSensitive(s, date, f) ==
    IF s.Evar \in tem_variables_list \cup dynamical_heating_rates_list
    THEN [Load3(s, Call("TEM", date, s.Evar, "", f)) EXCEPT !.ftf = TRUE]
    ELSE s

\* transformed Eulerian mean diagnostics
RouteTEM(s, date, f) ==
    IF Upper(s.Evar) \in tem_variables_list \cup dynamical_heating_rates_list
    THEN [Load3(s, Call("TEM", date, s.Evar, "", f)) EXCEPT !.ftf = TRUE]
    ELSE s

\* buoyancy frequency forcing terms
RouteTIL(s, date, f) ==
    LET s1 == IF s.Evar = "Nsq_wstar_forcing" \/ s.Evar = "Nsq_vstar_forcing"
              THEN [Load3(s, Call("til_RC", date, s.Evar, "", f)) EXCEPT !.ftf = TRUE]
              ELSE s
    IN  IF s1.Evar = "Nsq_forcing_Q"            \* 'Nsq_forcing_' in E['variable']
        THEN [Load3(s1, Call("til_Q", date, s1.Evar, "", f)) EXCEPT !.ftf = TRUE]
        ELSE s1

\* for all other variables, compute the diagnostic from model h files
RouteHistory(s, date, same, fNsq, fHist) ==
    IF s.ftf = FALSE
    THEN LET s1 == IF s.Evar = "Nsq"
                   THEN Load4(s, Call("Nsq", date, s.Evar, "", fNsq)) ELSE s
             s2 == IF IsLiteral(s1.Evar, "US", same)
                   THEN LoadHist([s1 EXCEPT !.Evar = "U"], Call("hist", date, "U", "", fHist))
                   ELSE s1
             s3 == IF ~s2.raised /\ IsLiteral(s2.Evar, "VS", same)
                   THEN LoadHist([s2 EXCEPT !.Evar = "V"], Call("hist", date, "V", "", fHist))
                   ELSE s2
         IN  IF s3.V = Unbound                  \* 'V' not in locals()
             THEN LoadHist(s3, Call("hist", date, s3.Evar, "", fHist))
             ELSE s3
    ELSE s

\* the router: the part of the loop body that sets V, lat, lon and lev
Route(s, Ed, date, same, f) ==
    IF IsERA(Ed.exp_name) /\ Ed.variable \in era_variables_list
    THEN RouteERA(s, date, f.other, f.main)
    ELSE RouteHistory(
             RouteTIL(RouteTEM(RouteDiag(RouteCov(s, Ed.diagn, date, f.main),
                                         date, f.diag), date, f.main), date, f.main),
             date, same, f.other, f.other)

\* what the loaders called in one pass find: the main loader of the route
\* (ERA, covariance, TEM, TIL), the DART diagnostic file, and the Nsq routine
\* or the model history loader (one pass never calls both of these)
Outcomes == [main : BOOLEAN, diag : BOOLEAN, other : BOOLEAN]

\* the filter without its 'if V is not None'
NotNone_KeepsNone(l) == l

\* [V for V in Vlist if V is not None]
NotNone(l) == SelectSeq(l, LAMBDA x : x # None)

\* bad = [i for i, j in enumerate(Vlist) if j is None]
Bad(l) == { i \in 1..Len(l) : l[i] = None }

\* [i for j, i in enumerate(E['daterange']) if j not in bad]
RECURSIVE Keep(_, _, _)
Keep(dr, bad, j) ==
    IF j > Len(dr) THEN <<>>
    ELSE (IF j \in bad THEN <<>> ELSE <<dr[j]>>) \o Keep(dr, bad, j + 1)

\* the name V after a list comprehension 'for V in l': Python 2 leaves the
\* last element bound to V, Python 3 leaves V alone
Leak(version, v, l) == IF version = 2 /\ Len(l) > 0 THEN l[Len(l)] ELSE v

\* no plot function is running
PlotIdle ==
    /\ cfg = [fn |-> "none"]
    /\ arr = <<>> /\ stash = <<>> /\ cur = "" /\ dims = <<>>
    /\ ppc = 0 /\ pstat = "idle" /\ ops = <<>>

D2AInit ==
    /\ PlotIdle
    /\ E \in [exp_name : ExpNames, variable : Variables, diagn : Diagns,
              copystring : CopyStrings, daterange : DateRanges]
    /\ Ecaller = E
    /\ py \in {2, 3}
    /\ ident \in (IF E.variable \in {"US", "VS"} THEN BOOLEAN ELSE {FALSE})
    /\ hnum = "unset"
    /\ DR = <<>>
    /\ idx = 0
    /\ pc = "call"
    /\ V = Unbound /\ lat = Unbound /\ lon = Unbound /\ lev = Unbound
    /\ Vlist = <<>>
    /\ Vmatrix = <<Unbound>>
    /\ new_daterange = <<NoDate>>
    /\ ret = [None5 EXCEPT !.none = FALSE]
    /\ printed = 0
    /\ calls = <<>>

IsClimDiagn(d) == HasClimatology(d) \/ HasAnomaly(d) \/ HasClimStd(d)

\* the field handed back for a climatology where the anomaly is
ClimField_Anomaly(diagn, AA, Xclim, S) == IF HasClimStd(diagn) THEN S ELSE AA

\* Vmatrix = Xclim, Vmatrix = AA, Vmatrix = S.reshape(AA.shape)
ClimField(diagn, AA, Xclim, S) ==
    IF HasClimStd(diagn) THEN S
    ELSE IF HasAnomaly(diagn) THEN AA
    ELSE Xclim

\* the anomaly / climatology branch: one call of MJO.ano (and MJO.stds)
D2A_Anomalies ==
    /\ pc = "call"
    /\ IsClimDiagn(E.diagn)
    /\ \E kept \in { s \in DateRanges : SeqRange(s) \subseteq SeqRange(E.daterange) } :
         LET ano == Call("ano", NoDate, E.variable, "AA", TRUE)
             clim == Call("ano", NoDate, E.variable, "Xclim", TRUE)
             std == Call("stds", NoDate, E.variable, "S", TRUE)
             vm == ClimField(E.diagn, ano, clim,
                             [std EXCEPT !.part = "S.reshape(AA.shape)"])
             co == IF HasClimStd(E.diagn) THEN std ELSE ano
         IN  /\ calls' = IF HasClimStd(E.diagn) THEN <<ano, std>> ELSE <<ano>>
             /\ ret' = [Vmatrix |-> <<vm>>, lat |-> co, lon |-> co, lev |-> co,
                        new_daterange |-> kept, none |-> FALSE]
    /\ pc' = "returned"
    /\ UNCHANGED <<E, Ecaller, py, ident, hnum, DR, idx, V, lat, lon, lev,
                   Vlist, Vmatrix, new_daterange, printed>>
    /\ UNCHANGED plotVars

\* choose the dates to loop over: months for monthly variables
D2A_Granularity ==
    /\ pc = "call"
    /\ ~IsClimDiagn(E.diagn)
    /\ \E h \in {"None", "0", "1"} :
         /\ hnum' = h
         /\ IF h = "0"
            THEN DR' \in SetOrders({ MonthStamp(E.daterange[i]) : i \in 1..Len(E.daterange) })
            ELSE DR' = E.daterange
    /\ idx' = 1
    /\ pc' = "loop"
    /\ UNCHANGED <<E, Ecaller, py, ident, V, lat, lon, lev,
                   Vlist, Vmatrix, new_daterange, ret, printed, calls>>
    /\ UNCHANGED plotVars

\* one pass of the body of 'for date in DR'
D2A_Iterate ==
    /\ pc = "loop"
    /\ idx <= Len(DR)
    /\ \E f \in Outcomes :
         LET s == Route(Frame(V, lat, lon, lev, E.variable, calls), E, DR[idx], ident, f)
             vl == Append(Vlist, s.V)
             vl2 == NotNone(vl)
             v1 == Leak(py, s.V, vl)
             v2 == Leak(py, v1, vl2)
         IN  /\ calls' = s.calls
             /\ E' = [E EXCEPT !.variable = s.Evar]
             /\ lat' = s.lat /\ lon' = s.lon /\ lev' = s.lev
             /\ Vlist' = IF s.raised THEN Vlist ELSE vl
             /\ IF s.raised                   \* the history loader raised
                THEN /\ pc' = "raised"
                     /\ UNCHANGED <<V, Vmatrix, new_daterange, idx, ret, printed>>
                ELSE IF Len(vl2) > 0
                THEN /\ new_daterange' = Keep(E.daterange, Bad(vl), 1)
                     /\ V' = v2
                     /\ printed' = printed
                     /\ ret' = ret
                     /\ IF v2 = None               \* None has no attribute 'shape'
                        THEN /\ pc' = "raised"
                             /\ UNCHANGED <<Vmatrix, idx>>
                        ELSE /\ Vmatrix' = vl2
                             /\ idx' = idx + 1
                             /\ pc' = "loop"
                ELSE /\ V' = v1
                     /\ printed' = printed + 1
                     /\ ret' = None5
                     /\ pc' = "returned"
                     /\ UNCHANGED <<Vmatrix, new_daterange, idx>>
    /\ UNCHANGED <<Ecaller, py, ident, hnum, DR>>
    /\ UNCHANGED plotVars

\* return Vmatrix,lat,lon,lev,new_daterange
D2A_Return ==
    /\ pc = "loop"
    /\ idx > Len(DR)
    /\ IF Vmatrix = <<Unbound>>                  \* the loop body never ran
       THEN pc' = "raised" /\ ret' = ret
       ELSE /\ pc' = "returned"
            /\ ret' = [Vmatrix |-> Vmatrix, lat |-> lat, lon |-> lon, lev |-> lev,
                       new_daterange |-> new_daterange, none |-> FALSE]
    /\ UNCHANGED <<E, Ecaller, py, ident, hnum, DR, idx, V, lat, lon, lev,
                   Vlist, Vmatrix, new_daterange, printed, calls>>
    /\ UNCHANGED plotVars

D2ANext == D2A_Anomalies \/ D2A_Granularity \/ D2A_Iterate \/ D2A_Return

SpecD2A == D2AInit /\ [][D2ANext]_vars

\* ---------------------------------------------------------------- plot functions
var3d == {"U", "US", "V", "VS", "T", "Z3", "DELF"}
var2d == {"PS", "FLUT"}

PlotFns == {"globe", "hovmoeller", "lev_time", "lat", "lev_lat", "lev_lat_quiver", "profiles"}

\* the calls explored: the grid of the loaded arrays (nlon = 0: lon is None, the
\* data are zonal means; nlev = 0: a 2-D variable, lev is None) and the length
\* of a leading copy axis (0: none)
PlotCalls ==
    { c \in [fn : PlotFns, var : {"T", "Nsq", "PS", "TS"}, diff : BOOLEAN, scale : BOOLEAN,
             ncopy : {0, MaxDim},
             nlat : 1..MaxDim, nlon : 0..MaxDim, nlev : 0..MaxDim, ntime : 1..MaxDim] :
        /\ (c.nlev = 0) = (c.var \in {"PS", "TS"})
        /\ c.scale => c.fn = "lev_lat_quiver" }

Axis(n, r) == [len |-> n, role |-> r]

\* the order of the axes in the DART diagnostic files: C[ilat,ilon,ilev,:]
NativeOrder == <<"lat", "lon", "lev">>

\* the array DART_diagn_to_array returns: file-native axes, time last
Native(c, tag) ==
    LET n(r) == CASE r = "lat" -> c.nlat
                  [] r = "lon" -> IF tag \in {"P", "Pdiff"} /\ c.nlon = 0 THEN MaxDim ELSE c.nlon
                  [] r = "lev" -> c.nlev
        sp == SelectSeq([i \in 1..3 |-> Axis(n(NativeOrder[i]), NativeOrder[i])],
                        LAMBDA a : a.len > 0)
    IN  (IF c.ncopy > 0 THEN <<Axis(c.ncopy, "copy")>> ELSE <<>>)
            \o sp \o <<Axis(c.ntime, "time")>>

Shape(a) == [i \in 1..Len(a) |-> a[i].len]

Max(S) == CHOOSE x \in S : \A y \in S : y <= x
Min(S) == CHOOSE x \in S : \A y \in S : x <= y

\* the same loop leaving at its first hit
MatchDim_First(shape, n, prev) ==
    LET hits == { i \in 1..Len(shape) : shape[i] = n }
    IN  IF hits = {} THEN prev ELSE Min(hits)

\* for dimlength,ii in zip(shape_tuple,range(len(shape_tuple))):
\*     if dimlength == len(lat): latdim = ii
\* the loop has no break: every hit overwrites the one before
MatchDim(shape, n, prev) ==
    LET hits == { i \in 1..Len(shape) : shape[i] = n }
    IN  IF hits = {} THEN prev ELSE Max(hits)

\* np.mean(a, axis=d), np.nanmean(a, axis=d): axis d goes
RemoveAxis(a, d) == [i \in 1..(Len(a) - 1) |-> IF i < d THEN a[i] ELSE a[i + 1]]

\* np.squeeze
Squeeze(a) == SelectSeq(a, LAMBDA x : x.len # 1)

\* steps of a plot function
Ld(tag, slot) == [k |-> "load", arr |-> tag, when |-> "always", match |-> FALSE,
                  sq |-> FALSE, els |-> "none", slot |-> slot]
Rd(kind, when, match, sq, els) ==
    [k |-> kind, arr |-> "", when |-> when, match |-> match, sq |-> sq, els |-> els, slot |-> ""]
El(op, slot, tag) == [k |-> op, arr |-> tag, when |-> "always", match |-> FALSE,
                      sq |-> FALSE, els |-> "none", slot |-> slot]
Ck(rule) == Rd("check", rule, FALSE, FALSE, "none")
Sq == Rd("squeeze", "always", FALSE, FALSE, "none")
Unpack4 == Rd("unpack4", "always", FALSE, FALSE, "none")

Prog_globe_lateorder(c) ==
    <<Ld("E", ""), Rd("lev", "lev3d", TRUE, FALSE, "squeeze"),
      Rd("time", "ntime>1", FALSE, FALSE, "squeeze")>>

\* plot_diagnostic_globe without stat_sig
Prog_globe(c) ==
    <<Ld("E", ""), Rd("time", "ntime>1", FALSE, FALSE, "squeeze"),
      Rd("lev", "lev3d", TRUE, FALSE, "squeeze")>>
    \o (IF c.diff
        THEN <<Ld("Ediff", "M1"), Rd("time", "ntime>1", FALSE, FALSE, "squeeze"),
               Rd("lev", "lev3d", FALSE, FALSE, "squeeze"), El("sub", "M1", "diff")>>
        ELSE <<>>)

\* plot_diagnostic_hovmoeller
Prog_hovmoeller(c) ==
    <<Ld("E", ""), Rd("lat", "always", TRUE, FALSE, "none"),
      Rd("lev", "ndim>3", TRUE, FALSE, "none")>>
    \o (IF c.diff THEN <<Unpack4>> ELSE <<>>)

\* plot_diagnostic_lev_time
Prog_lev_time(c) ==
    <<Ck("var3d"), Ld("E", ""), Rd("lon", "lon", TRUE, TRUE, "squeeze"),
      Rd("lat", "always", TRUE, TRUE, "none")>>
    \o (IF c.diff
        THEN <<Ld("Ediff", "M1"), Rd("lon", "lon", FALSE, TRUE, "squeeze"),
               Rd("lat", "always", FALSE, TRUE, "squeeze"), El("sub", "M1", "diff")>>
        ELSE <<>>)

Prog_lat_subfirst(c) ==
    <<Ld("E", "")>>
    \o (IF c.diff THEN <<Ld("Ediff", "M1"), El("sub", "M1", "diff")>> ELSE <<>>)
    \o <<Rd("time", "always", FALSE, FALSE, "none"), Rd("lon", "lon", TRUE, TRUE, "squeeze"),
         Rd("lev", "lev", TRUE, TRUE, "squeeze")>>

\* plot_diagnostic_lat
Prog_lat(c) ==
    <<Ld("E", ""), Rd("time", "always", FALSE, FALSE, "none"),
      Rd("lon", "lon", TRUE, TRUE, "squeeze"), Rd("lev", "lev", TRUE, TRUE, "squeeze")>>
    \o (IF c.diff
        THEN <<Ld("Ediff", "M1"), Rd("time", "always", FALSE, FALSE, "none"),
               Rd("lon", "lon", TRUE, TRUE, "squeeze"), Rd("lev", "lev", TRUE, TRUE, "squeeze"),
               El("sub", "M1", "diff")>>
        ELSE <<>>)

\* plot_diagnostic_lev_lat (vertical_coord other than 'TPbased')
Prog_lev_lat(c) ==
    <<Ck("PS/FLUT"), Ld("E", "")>>
    \o (IF c.diff THEN <<Ld("Ediff", "M1"), El("sub", "M1", "diff")>> ELSE <<>>)
    \o <<Rd("time", "always", FALSE, FALSE, "none"), Rd("lon", "lon", TRUE, TRUE, "squeeze")>>

\* one pass of the loop over the two components in plot_diagnostic_lev_lat_quiver
\* (E['variable'] is a tuple there, so neither early return is taken)
Pass_quiver(c) ==
    <<Ld("E", "")>>
    \o (IF c.scale
        THEN <<Ld("P", "V"), Rd("lon", "always", TRUE, TRUE, "none"), El("div", "V", "E")>>
        ELSE <<>>)
    \o <<Rd("time", "always", FALSE, FALSE, "none"), Rd("lon", "lon", TRUE, TRUE, "squeeze")>>
    \o (IF c.diff
        THEN <<Ld("Ediff", "M1")>>
             \o (IF c.scale
                 THEN <<Ld("Pdiff", "V"), Rd("lon", "always", TRUE, TRUE, "none"),
                        El("div", "V", "Ediff")>>
                 ELSE <<>>)
             \o <<Rd("time", "always", FALSE, FALSE, "none"),
                  Rd("lon", "lon", FALSE, TRUE, "squeeze"), El("sub", "M1", "diff")>>
        ELSE <<>>)

Prog_lev_lat_quiver(c) == Pass_quiver(c) \o Pass_quiver(c)

\* plot_diagnostic_profiles (one variable, vertical_coord other than 'TPbased')
Prog_profiles(c) ==
    <<Ck("PS/FLUT"), Ld("E", "")>>
    \o (IF c.diff THEN <<Ld("Ediff", "M1"), El("sub", "M1", "diff")>> ELSE <<>>)
    \o <<Rd("time", "always", FALSE, FALSE, "none"), Rd("lat", "always", TRUE, FALSE, "none"),
         Rd("lon", "lon", TRUE, FALSE, "none"), Sq>>

Program(c) ==
    CASE c.fn = "globe" -> Prog_globe(c)
      [] c.fn = "hovmoeller" -> Prog_hovmoeller(c)
      [] c.fn = "lev_time" -> Prog_lev_time(c)
      [] c.fn = "lat" -> Prog_lat(c)
      [] c.fn = "lev_lat" -> Prog_lev_lat(c)
      [] c.fn = "lev_lat_quiver" -> Prog_lev_lat_quiver(c)
      [] c.fn = "profiles" -> Prog_profiles(c)

\* the conditions the steps stand under
When(w, c, a) ==
    CASE w = "always" -> TRUE
      [] w = "ntime>1" -> c.ntime > 1                         \* len(DRnew) > 1
      [] w = "lev3d" -> c.var \in var3d /\ c.nlev > 0        \* 3-D and lev a vector
      [] w = "lon" -> c.nlon > 0                             \* lon is not None
      [] w = "lev" -> c.nlev > 0                             \* lev is not None
      [] w = "ndim>3" -> Len(a) + 1 > 3                      \* len(Vmatrix.shape) > 3

\* len(lat), len(lon), len(lev); 0 when the coordinate is None
CoordLen(kind, c) ==
    CASE kind = "lat" -> c.nlat [] kind = "lon" -> IF c.nlon = 0 /\ cur \in {"P", "Pdiff"} THEN MaxDim ELSE c.nlon
      [] kind = "lev" -> c.nlev

DimOf(kind) == CASE kind = "lon" -> 1 [] kind = "lat" -> 2 [] kind = "lev" -> 3

Step == Program(cfg)[ppc]
AtStep(kinds) == pstat = "run" /\ ppc <= Len(Program(cfg)) /\ Step.k \in kinds

\* what a plot function hands back: whether it is a tuple, and its items
NoReturn == [tuple |-> FALSE, items |-> <<>>]
BareReturn == [tuple |-> FALSE, items |-> <<"None">>]      \* 'return' alone: None

\* the variables of DART_diagn_to_array a plot function never touches itself
d2aRest == <<E, Ecaller, py, ident, hnum, DR, idx, pc, V, lat, lon, lev,
             Vlist, Vmatrix, new_daterange, calls>>

PlotInit ==
    /\ cfg \in PlotCalls
    /\ arr = <<>>
    /\ stash = [M1 |-> <<>>, V |-> <<>>]
    /\ cur = ""
    /\ dims = <<0, 0, 0>>
    /\ ppc = 1
    /\ pstat = "run"
    /\ ops = <<>>
    /\ E = [exp_name |-> "NODA"] /\ Ecaller = E /\ py = 0 /\ ident = FALSE
    /\ hnum = "unset" /\ DR = <<>> /\ idx = 0 /\ pc = "idle"
    /\ V = Unbound /\ lat = Unbound /\ lon = Unbound /\ lev = Unbound
    /\ Vlist = <<>> /\ Vmatrix = <<>> /\ new_daterange = <<>>
    /\ ret = NoReturn /\ printed = 0 /\ calls = <<>>

\* an entry of ops: the operation, whose array it is done on, the axis reduced
\* and its true role, the shape before, the coordinate length looked for, and
\* whether a matcher loop found the axis in this step
Op(k, on, axis, a, n, m) ==
    [k |-> k, on |-> on, axis |-> axis, role |-> IF axis > 0 THEN a[axis].role ELSE "",
     shape |-> Shape(a), n |-> n, matched |-> m]

\* the early return for two-dimensional variables
P_Check ==
    /\ AtStep({"check"})
    /\ LET is2d == IF Step.when = "var3d" THEN cfg.var \notin var3d   \* after .upper()
                   ELSE cfg.var \in var2d
       IN  IF is2d
           THEN /\ pstat' = "rejected" /\ ppc' = ppc
                /\ printed' = printed + 1              \* 'Attempting to plot a two ...'
                /\ ret' = BareReturn
           ELSE /\ pstat' = pstat /\ ppc' = ppc + 1
                /\ UNCHANGED <<printed, ret>>
    /\ UNCHANGED <<cfg, arr, stash, cur, dims, ops>>
    /\ UNCHANGED d2aRest

\* Vmatrix,lat,lon,lev,DRnew = DART_diagn_to_array(...)
P_Load ==
    /\ AtStep({"load"})
    /\ arr' = Native(cfg, Step.arr)
    /\ stash' = IF Step.slot = "" THEN stash ELSE [stash EXCEPT ![Step.slot] = arr]
    /\ cur' = Step.arr
    /\ ops' = Append(ops, Op("load", Step.arr, 0, arr, 0, FALSE))
    /\ ppc' = ppc + 1
    /\ UNCHANGED <<cfg, dims, pstat>>
    /\ UNCHANGED d2aVars

\* Vmatrix,lat,lon,lev = DART_diagn_to_array(Ediff,...): five values into four names
P_Unpack ==
    /\ AtStep({"unpack4"})
    /\ pstat' = "raised"
    /\ ops' = Append(ops, Op("load", "Ediff", 0, arr, 0, FALSE))
    /\ UNCHANGED <<cfg, arr, stash, cur, dims, ppc>>
    /\ UNCHANGED d2aVars

\* the average over the last dimension, which is time
P_Time ==
    /\ AtStep({"time"})
    /\ IF When(Step.when, cfg, arr)
       THEN /\ arr' = RemoveAxis(arr, Len(arr))
            /\ ops' = Append(ops, Op("time", cur, Len(arr), arr, 0, FALSE))
       ELSE /\ arr' = IF Step.els = "squeeze" THEN Squeeze(arr) ELSE arr
            /\ ops' = ops
    /\ ppc' = ppc + 1
    /\ UNCHANGED <<cfg, stash, cur, dims, pstat>>
    /\ UNCHANGED d2aVars

\* find the dimension of a coordinate by its length and average over it
Reduce(kind) ==
    /\ AtStep({kind})
    /\ IF When(Step.when, cfg, arr)
       THEN LET n == CoordLen(kind, cfg)
                d == IF Step.match THEN MatchDim(Shape(arr), n, dims[DimOf(kind)])
                     ELSE dims[DimOf(kind)]
                out == RemoveAxis(arr, d)
            IN  IF n = 0 \/ d = 0 \/ d > Len(arr)     \* TypeError, NameError, AxisError
                THEN /\ pstat' = "raised"
                     /\ UNCHANGED <<arr, dims, ops, ppc>>
                ELSE /\ arr' = IF Step.sq THEN Squeeze(out) ELSE out
                     /\ dims' = [dims EXCEPT ![DimOf(kind)] = d]
                     /\ ops' = Append(ops, Op(kind, cur, d, arr, n, Step.match))
                     /\ ppc' = ppc + 1
                     /\ pstat' = pstat
       ELSE /\ arr' = IF Step.els = "squeeze" THEN Squeeze(arr) ELSE arr
            /\ ppc' = ppc + 1
            /\ UNCHANGED <<dims, ops, pstat>>
    /\ UNCHANGED <<cfg, stash, cur>>
    /\ UNCHANGED d2aVars

P_Lon == Reduce("lon")
P_Lat == Reduce("lat")
P_Lev == Reduce("lev")

\* M1-M2, Vmain-Vdiff, Vmatrix/VPlonave
P_Elementwise ==
    /\ AtStep({"sub", "div"})
    /\ arr' = IF Step.k = "div" THEN stash[Step.slot] ELSE arr
    /\ cur' = Step.arr
    /\ ops' = Append(ops, Op(Step.k, Step.arr, 0, arr, 0, FALSE))
    /\ ppc' = ppc + 1
    /\ UNCHANGED <<cfg, stash, dims, pstat>>
    /\ UNCHANGED d2aVars

\* np.squeeze(Mlon)
P_Squeeze ==
    /\ AtStep({"squeeze"})
    /\ arr' = Squeeze(arr)
    /\ ppc' = ppc + 1
    /\ UNCHANGED <<cfg, stash, cur, dims, pstat, ops>>
    /\ UNCHANGED d2aVars

\* the data are loaded and reduced: on to the plotting
P_Done ==
    /\ pstat = "run"
    /\ ppc > Len(Program(cfg))
    /\ pstat' = "done"
    /\ UNCHANGED <<cfg, arr, stash, cur, dims, ppc, ops>>
    /\ UNCHANGED d2aVars

PlotNext ==
    P_Check \/ P_Load \/ P_Unpack \/ P_Time \/ P_Lon \/ P_Lat \/ P_Lev
        \/ P_Elementwise \/ P_Squeeze \/ P_Done

SpecPlot == PlotInit /\ [][PlotNext]_vars

\* ---------------------------------------------------------------- writers of E
\* the functions that assign into the experiment dictionary they were handed
MaxEns == 2         \* largest ensemble size, longest list of copies or variables

Member == <<"ensemble member 1", "ensemble member 2", "ensemble member 3",
            "ensemble member 4">>

AEFlist == <<"X1", "X2", "X3">>
variable_list == <<"US", "VS", "PS">>

WriterFns == {"globe_stat_sig", "aef_from_model_field", "compute_aefs_as_csv",
              "bootstrapci_from_anomalies"}

\* lists of at most MaxEns entries drawn from S
ListsOf(S) == UNION { [1..n -> S] : n \in 0..MaxEns }

\* a call: the function, es.get_ensemble_size_per_run, whether Ediff is given,
\* whether lev comes back as a vector for E and for Ediff, the variables
\* argument, and es.get_expt_CopyMetaData_state_space
WriterCalls ==
    { c \in [fn : WriterFns, N : 0..MaxEns, diff : BOOLEAN, lev : BOOLEAN,
             levdiff : BOOLEAN, variables : ListsOf({"U", "V", "PS"}),
             copies : ListsOf({"ensemble mean", "ensemble spread"})] :
        /\ c.fn \notin {"globe_stat_sig", "bootstrapci_from_anomalies"} => c.N = 0
        /\ c.fn # "globe_stat_sig" => ~c.diff /\ ~c.lev /\ ~c.levdiff
        /\ ~c.diff => ~c.levdiff
        /\ c.fn # "aef_from_model_field" => c.variables = <<>>
        /\ c.fn # "compute_aefs_as_csv" => c.copies = <<>> }

WriterDicts ==
    [exp_name : {"NODA"}, variable : {"US", "T", "PS"}, diagn : {"Prior"},
     copystring : {"ensemble mean", "ensemble member 1"}, daterange : {<<>>}]

\* what DART_diagn_to_array leaves in the dictionary it was handed: the
\* history-file fallback renames US and VS in place
D2AEffect(Ed, fallback, same) ==
    IF fallback /\ IsLiteral(Ed.variable, "US", same) THEN [Ed EXCEPT !.variable = "U"]
    ELSE IF fallback /\ IsLiteral(Ed.variable, "VS", same) THEN [Ed EXCEPT !.variable = "V"]
    ELSE Ed

D2AResults == {"array", "None5", "raised"}

\* the variable aef_from_model_field asks the loader for
AEFVariable(v) == IF v = "U" THEN "US" ELSE IF v = "V" THEN "VS" ELSE v

\* the loop of aef_from_model_field over a non-empty list never gets past its
\* first pass: erp is not a name of the module, and without either identity
\* test succeeding Xtemp is unbound
AEFFirstPass(Ed, variables) == [Ed EXCEPT !.variable = AEFVariable(variables[1])]

WriterInit ==
    /\ cfg \in WriterCalls
    /\ E \in WriterDicts
    /\ Ecaller = E
    /\ stash \in [Ediff : WriterDicts, Ediffcaller : WriterDicts]
    /\ stash.Ediff = stash.Ediffcaller
    /\ ~cfg.diff => stash.Ediff = E
    /\ ident \in (IF cfg.fn = "globe_stat_sig" /\ E.variable = "US" THEN BOOLEAN ELSE {FALSE})
    /\ ppc = 1
    /\ pstat = "run"
    /\ calls = <<>>
    /\ arr = <<>> /\ cur = "" /\ dims = <<>> /\ ops = <<>>
    /\ py = 0 /\ hnum = "unset" /\ DR = <<>> /\ idx = 0 /\ pc = "idle"
    /\ V = Unbound /\ lat = Unbound /\ lon = Unbound /\ lev = Unbound
    /\ Vlist = <<>> /\ Vmatrix = <<>> /\ new_daterange = <<>>
    /\ ret = <<>> /\ printed = 0

\* the level scan written with range(len(VV.shape)): it raises nothing
LevelScanRaises_Ranged(v, levIsVector) == FALSE

\* for dimlength,idim in zip(VV.shape,len(VV.shape)): the second argument is
\* an int, so zip raises TypeError as soon as the branch is entered
LevelScanRaises(v, levIsVector) == v \in var3d /\ levIsVector

WriterFrame == <<cfg, Ecaller, ident, arr, cur, dims, ops, py, hnum, DR, idx, pc,
                 V, lat, lon, lev, Vlist, Vmatrix, new_daterange, ret, printed>>

InWriter(fn) == pstat = "run" /\ cfg.fn = fn

\* one pass of 'for iens in range(N)' of plot_diagnostic_globe with stat_sig
Globe_Member ==
    /\ InWriter("globe_stat_sig")
    /\ ppc <= cfg.N
    /\ \E r1 \in D2AResults, r2 \in D2AResults, fb1 \in BOOLEAN, fb2 \in BOOLEAN :
         LET E1 == [E EXCEPT !.copystring = Member[ppc]]
             E2 == D2AEffect(E1, fb1, ident)
             c1 == Call("DART_diagn_to_array", NoDate, E1.variable, E1.copystring, r1 = "array")
             fail1 == r1 # "array" \/ LevelScanRaises(E2.variable, cfg.lev)
             D1 == [stash.Ediff EXCEPT !.copystring = Member[ppc]]
             D2 == D2AEffect(D1, fb2, FALSE)
             c2 == Call("DART_diagn_to_array", NoDate, D1.variable, D1.copystring, r2 = "array")
             fail2 == r2 # "array" \/ (E2.variable \in var3d /\ cfg.levdiff)
         IN  /\ E' = E2
             /\ IF fail1 \/ ~cfg.diff
                THEN /\ stash' = stash
                     /\ calls' = Append(calls, c1)
                     /\ pstat' = IF fail1 THEN "raised" ELSE pstat
                ELSE /\ stash' = [stash EXCEPT !.Ediff = D2]
                     /\ calls' = calls \o <<c1, c2>>
                     /\ pstat' = IF fail2 THEN "raised" ELSE pstat
             /\ ppc' = ppc + 1
    /\ UNCHANGED WriterFrame

\* np.concatenate of the list of member fields, the bootstrap, the plot
Globe_Finish ==
    /\ InWriter("globe_stat_sig")
    /\ ppc > cfg.N
    /\ pstat' = IF cfg.N = 0 THEN "raised" ELSE "done"
    /\ UNCHANGED <<E, stash, ppc, calls>>
    /\ UNCHANGED WriterFrame

\* the first pass of 'for variable in variables' of aef_from_model_field
AEF_Variable ==
    /\ InWriter("aef_from_model_field")
    /\ ppc <= Len(cfg.variables)
    /\ E' = AEFFirstPass(E, cfg.variables)
    /\ \E f \in BOOLEAN :
         calls' = Append(calls, Call("diagnostic", NoDate, E'.variable, E'.copystring, f))
    /\ pstat' = "raised"
    /\ UNCHANGED <<stash, ppc>>
    /\ UNCHANGED WriterFrame

\* return variables,Xout
AEF_Return ==
    /\ InWriter("aef_from_model_field")
    /\ ppc > Len(cfg.variables)
    /\ pstat' = "done"
    /\ UNCHANGED <<E, stash, ppc, calls>>
    /\ UNCHANGED WriterFrame

\* one pass of the loops over AEFlist and copystring_list of compute_aefs_as_csv
CSV_Copy ==
    /\ InWriter("compute_aefs_as_csv")
    /\ ppc <= Len(AEFlist) * Len(cfg.copies)
    /\ LET copystring == cfg.copies[((ppc - 1) % Len(cfg.copies)) + 1]
           E1 == [E EXCEPT !.copystring = copystring]
       IN  /\ E' = AEFFirstPass(E1, variable_list)
           /\ \E f \in BOOLEAN :
                calls' = Append(calls, Call("diagnostic", NoDate, E'.variable, copystring, f))
    /\ pstat' = "raised"
    /\ UNCHANGED <<stash, ppc>>
    /\ UNCHANGED WriterFrame

\* the data frame is written to the csv file
CSV_Finish ==
    /\ InWriter("compute_aefs_as_csv")
    /\ ppc > Len(AEFlist) * Len(cfg.copies)
    /\ pstat' = "done"
    /\ UNCHANGED <<E, stash, ppc, calls>>
    /\ UNCHANGED WriterFrame

\* the first pass of 'for iens in range(N)' of bootstrapci_from_anomalies:
\* mjo is not a name of the module
Boot_Member ==
    /\ InWriter("bootstrapci_from_anomalies")
    /\ ppc <= cfg.N
    /\ E' = [E EXCEPT !.copystring = Member[ppc]]
    /\ pstat' = "raised"
    /\ UNCHANGED <<stash, ppc, calls>>
    /\ UNCHANGED WriterFrame

\* np.concatenate of an empty list
Boot_Finish ==
    /\ InWriter("bootstrapci_from_anomalies")
    /\ ppc > cfg.N
    /\ pstat' = "raised"
    /\ UNCHANGED <<E, stash, ppc, calls>>
    /\ UNCHANGED WriterFrame

WriterNext ==
    Globe_Member \/ Globe_Finish \/ AEF_Variable \/ AEF_Return
        \/ CSV_Copy \/ CSV_Finish \/ Boot_Member \/ Boot_Finish

SpecWriter == WriterInit /\ [][WriterNext]_vars

\* ---------------------------------------------------------------- model history files
\* compute_DART_diagn_from_model_h_files
HistCopyStrings == {"ensemble member 1", "ensemble member", "ensemble mean",
                    "ensemble std", "ensemble", "ensemble spread"}

\* 'ensemble member' in CS
HasMember(cs) == cs \in {"ensemble member 1", "ensemble member"}

\* int(re.sub(r'ensemble member*','',CS).strip()); 0 where int() raises ValueError
Instance(cs) == IF cs = "ensemble member 1" THEN 1 ELSE 0

None4 == [Xout |-> None, lat |-> None, lon |-> None, lev |-> None]

HistInit ==
    /\ cfg \in [fn : {"model_h"}, verbose : BOOLEAN, N : 0..MaxEns, date : Dates]
    /\ E \in [exp_name : {"NODA"}, variable : {"T", "U"}, diagn : {"Prior"},
              copystring : HistCopyStrings, daterange : {<<>>}]
    /\ Ecaller = E
    /\ stash = None4                    \* Xout = None; lat = None; lon = None; lev = None
    /\ ppc = 1
    /\ pstat = "run"
    /\ calls = <<>>
    /\ printed = 0
    /\ ret = None4
    /\ arr = <<>> /\ cur = "" /\ dims = <<>> /\ ops = <<>>
    /\ py = 0 /\ ident = FALSE /\ hnum = "unset" /\ DR = <<>> /\ idx = 0 /\ pc = "idle"
    /\ V = Unbound /\ lat = Unbound /\ lon = Unbound /\ lev = Unbound
    /\ Vlist = <<>> /\ Vmatrix = <<>> /\ new_daterange = <<>>

HistFrame == <<cfg, E, Ecaller, arr, cur, dims, ops, py, ident, hnum, DR, idx, pc,
               V, lat, lon, lev, Vlist, Vmatrix, new_daterange>>

\* what waccm.load_WACCM_multi_instance_h_file hands back: the field, and the
\* coordinate vectors
HistOutcomes == [X : BOOLEAN, coords : BOOLEAN]

\* one of the three blocks that load a single instance: a member, the
\* precomputed ensemble mean, the precomputed ensemble std
HistSingle(k, selected, instance, valid) ==
    /\ pstat = "run" /\ cfg.fn = "model_h" /\ ppc = k
    /\ IF ~selected
       THEN /\ ppc' = ppc + 1
            /\ UNCHANGED <<stash, calls, printed, pstat>>
       ELSE IF ~valid
       THEN /\ pstat' = "raised"
            /\ UNCHANGED <<stash, calls, printed, ppc>>
       ELSE \E o \in HistOutcomes :
              LET c == Call("h_file", cfg.date, E.variable, instance, o.X)
                  co == IF o.coords THEN Call("h_file", cfg.date, E.variable, instance, TRUE)
                        ELSE None
              IN  /\ stash' = [Xout |-> Field(c), lat |-> co, lon |-> co, lev |-> co]
                  /\ calls' = Append(calls, c)
                  /\ printed' = IF (~o.X \/ ~o.coords) /\ cfg.verbose
                                THEN printed + 1 ELSE printed
                  /\ ppc' = ppc + 1
                  /\ pstat' = pstat
    /\ ret' = ret
    /\ UNCHANGED HistFrame

H_Member == HistSingle(1, HasMember(E.copystring), "member", Instance(E.copystring) # 0)
H_Mean == HistSingle(2, E.copystring = "ensemble mean", "ensemble mean", TRUE)
H_Std == HistSingle(3, E.copystring = "ensemble std", "ensemble std", TRUE)

\* the whole ensemble: one load per member, then np.concatenate
H_Ensemble ==
    /\ pstat = "run" /\ cfg.fn = "model_h" /\ ppc = 4
    /\ IF E.copystring # "ensemble"
       THEN /\ ppc' = ppc + 1
            /\ UNCHANGED <<stash, calls, pstat>>
       ELSE \E found \in [1..cfg.N -> BOOLEAN] :
              LET cs == [i \in 1..cfg.N |->
                            Call("h_file", cfg.date, E.variable, "member", found[i])]
                  all == Call("h_file", cfg.date, E.variable, "ensemble", TRUE)
              IN  /\ calls' = calls \o cs
                  /\ IF cfg.N = 0 \/ \E i \in 1..cfg.N : ~found[i]
                     THEN pstat' = "raised" /\ UNCHANGED <<stash, ppc>>
                     ELSE /\ stash' = [Xout |-> all, lat |-> all, lon |-> all, lev |-> all]
                          /\ ppc' = ppc + 1
                          /\ pstat' = pstat
    /\ UNCHANGED <<printed, ret>>
    /\ UNCHANGED HistFrame

\* 'if Xout is None': the message is built from copystring, a name bound
\* neither in the function nor in the module
H_Return ==
    /\ pstat = "run" /\ cfg.fn = "model_h" /\ ppc = 5
    /\ IF stash.Xout = None
       THEN pstat' = "raised" /\ ret' = ret
       ELSE pstat' = "done" /\ ret' = stash
    /\ UNCHANGED <<stash, calls, printed, ppc>>
    /\ UNCHANGED HistFrame

HistNext == H_Member \/ H_Mean \/ H_Std \/ H_Ensemble \/ H_Return

SpecHist == HistInit /\ [][HistNext]_vars

\* np.nanmean(Vmatrix,axis=len(Vmatrix.shape)-1) on the returned array: the
\* slices summed and the number the sum is divided by
TimeMean(ret5) ==
    IF ret5.none THEN [raised |-> TRUE, of |-> <<>>, n |-> 0]       \* None has no shape
    ELSE [raised |-> FALSE, of |-> ret5.Vmatrix, n |-> Len(ret5.Vmatrix)]

\* ---------------------------------------------------------------- to_TPbased
\* zTPgrid=np.arange(6.0,21.0, 1.0)
zTPgrid == 6..20

\* tropopause-based heights (km) a column can hold
TPHeights == {3, 6, 7, 12, 20, 25}

\* the columns ZT[ii,jj,kk,:,ll]: distinct heights, at least the four points
\* a cubic interp1d needs
ZTColumns ==
    { c \in UNION { [1..n -> TPHeights] : n \in 4..Cardinality(TPHeights) } :
        \A i \in 1..(Len(c) - 1) : c[i] < c[i + 1] }

NaN == [nan |-> TRUE, f |-> <<>>, at |-> 0]

\* f(z) for f = interp1d(ZTcolumn,Vcolumn, kind='cubic')
Interp(col, z) == [nan |-> FALSE, f |-> col, at |-> z]

\* the grid heights between the ends of the column, ends included
Select_Inclusive(col) ==
    { z \in zTPgrid : z >= Min(SeqRange(col)) /\ z <= Max(SeqRange(col)) }

\* np.where(np.logical_and(zTPgrid>min(ZTcolumn), zTPgrid<max(ZTcolumn)))
Select(col) ==
    { z \in zTPgrid : z > Min(SeqRange(col)) /\ z < Max(SeqRange(col)) }

TPInit ==
    /\ cfg \in { [fn |-> "to_TPbased", ZT |-> zt] :
                    zt \in UNION { [1..n -> ZTColumns] : n \in 1..MaxDim } }
    /\ arr = [j \in 1..Len(cfg.ZT) |-> [z \in zTPgrid |-> NaN]]    \* np.empty(shape=Snew)*np.nan
    /\ ppc = 1
    /\ pstat = "run"
    /\ stash = <<>> /\ cur = "" /\ dims = <<>> /\ ops = <<>>
    /\ E = [exp_name |-> "NODA"] /\ Ecaller = E /\ py = 0 /\ ident = FALSE
    /\ hnum = "unset" /\ DR = <<>> /\ idx = 0 /\ pc = "idle"
    /\ V = Unbound /\ lat = Unbound /\ lon = Unbound /\ lev = Unbound
    /\ Vlist = <<>> /\ Vmatrix = <<>> /\ new_daterange = <<>>
    /\ ret = NoReturn /\ printed = 0 /\ calls = <<>>

\* one pass of the innermost loop: Vnew[ii,jj,kk,select,ll] = f(zTPnew)
TP_Column ==
    /\ pstat = "run" /\ cfg.fn = "to_TPbased"
    /\ ppc <= Len(cfg.ZT)
    /\ LET col == cfg.ZT[ppc]
       IN  arr' = [arr EXCEPT ![ppc] =
                      [z \in zTPgrid |-> IF z \in Select(col) THEN Interp(col, z) ELSE @[z]]]
    /\ ppc' = ppc + 1
    /\ UNCHANGED <<cfg, stash, cur, dims, pstat, ops>>
    /\ UNCHANGED d2aVars

\* return Vnew,zTPgrid
TP_Return ==
    /\ pstat = "run" /\ cfg.fn = "to_TPbased"
    /\ ppc > Len(cfg.ZT)
    /\ pstat' = "done"
    /\ ret' = [tuple |-> TRUE, items |-> <<"Vnew", "zTPgrid">>]
    /\ UNCHANGED <<cfg, arr, stash, cur, dims, ppc, ops>>
    /\ UNCHANGED <<d2aRest, printed>>

TPNext == TP_Column \/ TP_Return

SpecTP == TPInit /\ [][TPNext]_vars

\* ---------------------------------------------------------------- covariance files
\* make_state_to_obs_covariance_file and compute_state_to_obs_covariance_field
CovVariables == {"T", "US", "PS", "FLUT"}

\* len(VV.shape) of the ensemble retrieve_state_space_ensemble hands back:
\* (N, lev, lat, lon, time) for a field with levels, (N, lat, lon, time) without
EnsembleNdim(v) == IF v \in var2d THEN 4 ELSE 5

NcVar(name, d) == [name |-> name, dims |-> d]

EmptyFile == [dims |-> {}, vars |-> {}, filled |-> {}, closed |-> FALSE,
              time |-> -1, units |-> <<>>]

\* the dates of the model as calendar dates: January and February 2009
Civil(dd) == [year |-> 2009, month |-> dd[1], day |-> dd[2], hour |-> dd[3]]

IsLeap(y) == y % 4 = 0 /\ (y % 100 # 0 \/ y % 400 = 0)

\* days in the months before month m of year y
DaysBeforeMonth(y, m) ==
    LET cum == <<0, 31, 59, 90, 120, 151, 181, 212, 243, 273, 304, 334>>
    IN  cum[m] + (IF m > 2 /\ IsLeap(y) THEN 1 ELSE 0)

\* the day number of a date in the proleptic Gregorian calendar (0001-01-01 is 1)
Ordinal(y, m, d) ==
    LET p == y - 1
    IN  p * 365 + (p \div 4) - (p \div 100) + (p \div 400) + DaysBeforeMonth(y, m) + d

\* (a - b).days for a at or after b, b at midnight: the days between the two
\* dates, the time of day of a dropped
DaysSince(epoch, c) ==
    Ordinal(c.year, c.month, c.day) - Ordinal(epoch[1], epoch[2], epoch[3])

\* the epoch the units attribute of the time variable names
UnitsEpoch == <<1601, 1, 1>>

\* dt = date - datetime.datetime(1600,1,1,0,0,0)
Time0Epoch == <<1600, 1, 1>>

\* a non-negative whole number stored as 'f4': exact below 2^24, rounded to
\* the nearest even number (ties to the even mantissa) from there to 2^25
F4(n) ==
    IF n < 16777216 \/ n % 2 = 0 THEN n
    ELSE IF (n + 1) % 4 = 0 THEN n + 1 ELSE n - 1

CovInit ==
    /\ cfg \in [fn : {"covariance_file"}, var : CovVariables, date : Dates,
                obs_name : {"ERP_LOD", "ERP_PM1"},
                nlat : 1..MaxDim, nlon : 1..MaxDim, nlev : 1..MaxDim]
    /\ stash = [C |-> <<>>, lev0 |-> "unbound", time0 |-> -1, file |-> EmptyFile]
    /\ ppc = 1
    /\ pstat = "run"
    /\ arr = <<>> /\ cur = "" /\ dims = <<>> /\ ops = <<>>
    /\ E = [exp_name |-> "NODA"] /\ Ecaller = E /\ py = 0 /\ ident = FALSE
    /\ hnum = "unset" /\ DR = <<>> /\ idx = 0 /\ pc = "idle"
    /\ V = Unbound /\ lat = Unbound /\ lon = Unbound /\ lev = Unbound
    /\ Vlist = <<>> /\ Vmatrix = <<>> /\ new_daterange = <<>>
    /\ ret = NoReturn /\ printed = 0 /\ calls = <<>>

CovFrame == <<cfg, arr, cur, dims, ops>>

AtCov(k) == pstat = "run" /\ cfg.fn = "covariance_file" /\ ppc = k

\* C, R, lev0,lat0,lon0 = compute_state_to_obs_covariance_field(...): the shape
\* of C, and lev (np.nan where the ensemble has no level axis)
Cov_Compute ==
    /\ AtCov(1)
    /\ LET st == [stash EXCEPT !.time0 = DaysSince(Time0Epoch, Civil(cfg.date))]
       IN  stash' = IF EnsembleNdim(cfg.var) = 5
                    THEN [st EXCEPT !.C = <<cfg.nlat, cfg.nlon, cfg.nlev, 1>>, !.lev0 = "vector"]
                    ELSE [st EXCEPT !.C = <<cfg.nlat, cfg.nlon, 1>>, !.lev0 = "nan"]
    /\ ppc' = ppc + 1
    /\ UNCHANGED <<pstat, printed>>
    /\ UNCHANGED CovFrame /\ UNCHANGED <<d2aRest, ret>>

\* the dimensions and variables of the netCDF file
Cov_Create ==
    /\ AtCov(2)
    /\ LET common == [EmptyFile EXCEPT
                         !.dims = {"lat", "lon", "time"},
                         !.vars = {NcVar("lon", <<"lon">>), NcVar("lat", <<"lat">>),
                                   NcVar("time", <<"time">>)}]
       IN  IF cfg.var = "PS"
           THEN /\ stash' = [stash EXCEPT !.file = [common EXCEPT !.vars = @ \cup
                                {NcVar("Covariance", <<"lat", "lon", "time">>),
                                 NcVar("Correlation", <<"lat", "lon", "time">>)}]]
                /\ ppc' = ppc + 1 /\ pstat' = pstat
           ELSE IF stash.lev0 # "vector"           \* len(lev0) of a float: TypeError
           THEN /\ stash' = [stash EXCEPT !.file = common]
                /\ ppc' = ppc /\ pstat' = "raised"
           ELSE /\ stash' = [stash EXCEPT !.file = [common EXCEPT
                                !.dims = @ \cup {"lev"},
                                !.vars = @ \cup
                                {NcVar("lev", <<"lev">>),
                                 NcVar("Covariance", <<"lat", "lon", "lev", "time">>),
                                 NcVar("Correlation", <<"lat", "lon", "lev", "time">>)}]]
                /\ ppc' = ppc + 1 /\ pstat' = pstat
    /\ printed' = printed
    /\ UNCHANGED CovFrame /\ UNCHANGED <<d2aRest, ret>>

\* fill in the variables
Cov_Fill ==
    /\ AtCov(3)
    /\ stash' = [stash EXCEPT !.file.filled = { v.name : v \in stash.file.vars },
                              !.file.time = F4(stash.time0)]
    /\ ppc' = ppc + 1
    /\ UNCHANGED <<pstat, printed>>
    /\ UNCHANGED CovFrame /\ UNCHANGED <<d2aRest, ret>>

\* the attributes, ff.close() and the message
Cov_Close ==
    /\ AtCov(4)
    /\ stash' = [stash EXCEPT !.file.closed = TRUE, !.file.units = UnitsEpoch]
    /\ pstat' = "done"
    /\ printed' = printed + 1
    /\ ret' = BareReturn
    /\ ppc' = ppc
    /\ UNCHANGED CovFrame /\ UNCHANGED d2aRest

CovNext == Cov_Compute \/ Cov_Create \/ Cov_Fill \/ Cov_Close

SpecCov == CovInit /\ [][CovNext]_vars

\* ---------------------------------------------------------------- a second call
\* The caller runs DART_diagn_to_array, sets E['daterange'] to the
\* new_daterange it got back, and runs it again on the same dictionary.
\* cfg.run counts the calls; stash keeps what the first call was given and
\* what it returned; calls goes on logging the loader calls of both.
\* a staggered wind, a control variable, a plain history variable and a
\* transformed-mean diagnostic, through the date loop
RerunVariables == {"US", "T", "U", "VSTAR"}
RerunDiagns == {"Prior", "covariance"}

RerunInit ==
    /\ cfg = [fn |-> "rerun", run |-> 1]
    /\ arr = <<>> /\ stash = <<>> /\ cur = "" /\ dims = <<>>
    /\ ppc = 0 /\ pstat = "idle" /\ ops = <<>>
    /\ E \in [exp_name : ExpNames, variable : RerunVariables,
              diagn : RerunDiagns,
              copystring : CopyStrings, daterange : DateRanges \ {<<>>}]
    /\ Ecaller = E
    /\ py \in {2, 3}
    /\ ident \in (IF E.variable \in {"US", "VS"} THEN BOOLEAN ELSE {FALSE})
    /\ hnum = "unset"
    /\ DR = <<>>
    /\ idx = 0
    /\ pc = "call"
    /\ V = Unbound /\ lat = Unbound /\ lon = Unbound /\ lev = Unbound
    /\ Vlist = <<>>
    /\ Vmatrix = <<Unbound>>
    /\ new_daterange = <<NoDate>>
    /\ ret = [None5 EXCEPT !.none = FALSE]
    /\ printed = 0
    /\ calls = <<>>

\* E['daterange'] = new_daterange, then the second call: a fresh frame of
\* locals on the dictionary as the first call left it
D2A_Rerun ==
    /\ cfg.fn = "rerun" /\ cfg.run = 1
    /\ pc = "returned" /\ ~ret.none
    /\ cfg' = [cfg EXCEPT !.run = 2]
    /\ stash' = [first |-> ret, Efirst |-> Ecaller, hnum |-> hnum, DR |-> DR,
                 ncalls |-> Len(calls)]
    /\ E' = [E EXCEPT !.daterange = ret.new_daterange]
    /\ Ecaller' = E'
    /\ hnum' = "unset"
    /\ DR' = <<>>
    /\ idx' = 0
    /\ pc' = "call"
    /\ V' = Unbound /\ lat' = Unbound /\ lon' = Unbound /\ lev' = Unbound
    /\ Vlist' = <<>>
    /\ Vmatrix' = <<Unbound>>
    /\ new_daterange' = <<NoDate>>
    /\ ret' = [None5 EXCEPT !.none = FALSE]
    /\ UNCHANGED <<py, ident, printed, calls>>
    /\ UNCHANGED <<arr, cur, dims, ppc, pstat, ops>>

RerunNext == D2A_Granularity \/ D2A_Iterate \/ D2A_Return \/ D2A_Rerun

SpecRerun == RerunInit /\ [][RerunNext]_vars


\* ---------------------------------------------------------------- order of the means
\* The longitude and latitude means of plot_diagnostic_lev_time (longitude
\* first, np.squeeze after each mean) and of plot_diagnostic_profiles
\* (latitude first, one np.squeeze at the end) applied to the same field.
\* arr is the field; stash holds, for each of the two, the array it has got
\* to, the number of means taken and whether an axis lookup raised.
OrderFields ==
    { <<Axis(a, "lat"), Axis(b, "lon")>>
          \o (IF l > 0 THEN <<Axis(l, "lev")>> ELSE <<>>)
          \o (IF t > 0 THEN <<Axis(t, "time")>> ELSE <<>>) :
      a \in 1..MaxDim, b \in 1..MaxDim, l \in 0..MaxDim, t \in 0..MaxDim }

Path(a) == [arr |-> a, step |-> 0, raised |-> FALSE]

\* for dimlength,ii in zip(shape_tuple,range(len(shape_tuple))): ... then a mean
\* over the axis found; the name of the axis is unbound when nothing matched
MeanOver(pth, n, squeeze) ==
    LET d == MatchDim(Shape(pth.arr), n, 0)
        out == RemoveAxis(pth.arr, d)
    IN  IF d = 0 THEN [pth EXCEPT !.raised = TRUE]
        ELSE [pth EXCEPT !.arr = IF squeeze THEN Squeeze(out) ELSE out, !.step = @ + 1]

OrderInit ==
    /\ cfg = [fn |-> "order"]
    /\ arr \in OrderFields
    /\ stash = [lon_lat |-> Path(arr), lat_lon |-> Path(arr)]
    /\ cur = "" /\ dims = <<>> /\ ppc = 0 /\ pstat = "run" /\ ops = <<>>
    /\ E = [exp_name |-> "NODA"] /\ Ecaller = E /\ py = 0 /\ ident = FALSE
    /\ hnum = "unset" /\ DR = <<>> /\ idx = 0 /\ pc = "idle"
    /\ V = Unbound /\ lat = Unbound /\ lon = Unbound /\ lev = Unbound
    /\ Vlist = <<>> /\ Vmatrix = <<>> /\ new_daterange = <<>>
    /\ ret = NoReturn /\ printed = 0 /\ calls = <<>>

CoordLenOf(a, role) == (CHOOSE x \in SeqRange(a) : x.role = role).len

InOrder(which, n) ==
    /\ cfg.fn = "order"
    /\ stash[which].step = n /\ ~stash[which].raised

\* Vlon = np.squeeze(np.mean(Vmatrix,axis=londim))
LevTime_Lon ==
    /\ InOrder("lon_lat", 0)
    /\ stash' = [stash EXCEPT !.lon_lat = MeanOver(@, CoordLenOf(arr, "lon"), TRUE)]
    /\ UNCHANGED <<cfg, arr, cur, dims, ppc, pstat, ops>>
    /\ UNCHANGED d2aVars

\* Vlonlat = np.squeeze(np.mean(Vlon,axis=latdim))
LevTime_Lat ==
    /\ InOrder("lon_lat", 1)
    /\ stash' = [stash EXCEPT !.lon_lat = MeanOver(@, CoordLenOf(arr, "lat"), TRUE)]
    /\ UNCHANGED <<cfg, arr, cur, dims, ppc, pstat, ops>>
    /\ UNCHANGED d2aVars

\* Mlat = np.nanmean(VV,axis=latdim)
Profiles_Lat ==
    /\ InOrder("lat_lon", 0)
    /\ stash' = [stash EXCEPT !.lat_lon = MeanOver(@, CoordLenOf(arr, "lat"), FALSE)]
    /\ UNCHANGED <<cfg, arr, cur, dims, ppc, pstat, ops>>
    /\ UNCHANGED d2aVars

\* Mlon = np.nanmean(Mlat,axis=londim); M = scaling_factor*np.squeeze(Mlon)
Profiles_Lon ==
    /\ InOrder("lat_lon", 1)
    /\ stash' = [stash EXCEPT !.lat_lon =
                    LET m == MeanOver(@, CoordLenOf(arr, "lon"), FALSE)
                    IN  IF m.raised THEN m ELSE [m EXCEPT !.arr = Squeeze(@)]]
    /\ UNCHANGED <<cfg, arr, cur, dims, ppc, pstat, ops>>
    /\ UNCHANGED d2aVars

OrderNext == LevTime_Lon \/ LevTime_Lat \/ Profiles_Lat \/ Profiles_Lon

SpecOrder == OrderInit /\ [][OrderNext]_vars

\* ---------------------------------------------------------------- lat_time, lon_time
\* plot_diagnostic_lat_time and plot_diagnostic_lon_time load the files date
\* by date themselves.  cfg is the call; ppc the pass of the loop (ii + 1);
\* stash holds the names the first pass binds and the columns of MM written
\* so far: "field" for a reduced field, "empty" for the reduction of an
\* np.empty placeholder (its content is whatever the memory held).
TimeLoopCalls ==
    [fn : {"lat_time", "lon_time"}, cov : BOOLEAN, diff : BOOLEAN, daterange : DateRanges]

TimeLoopInit ==
    /\ cfg \in TimeLoopCalls
    /\ stash = [refshape |-> FALSE, nlat |-> FALSE, nlon |-> FALSE, MM |-> <<>>]
    /\ ppc = 1
    /\ pstat = "run"
    /\ calls = <<>>
    /\ arr = <<>> /\ cur = "" /\ dims = <<>> /\ ops = <<>>
    /\ E = [exp_name |-> "NODA"] /\ Ecaller = E /\ py = 0 /\ ident = FALSE
    /\ hnum = "unset" /\ DR = <<>> /\ idx = 0 /\ pc = "idle"
    /\ V = Unbound /\ lat = Unbound /\ lon = Unbound /\ lev = Unbound
    /\ Vlist = <<>> /\ Vmatrix = <<>> /\ new_daterange = <<>>
    /\ ret = NoReturn /\ printed = 0

InTimeLoop == cfg.fn \in {"lat_time", "lon_time"} /\ pstat = "run"

\* the names bound in the pass ii == 0: nlat = len(lat) in lat_time and in the
\* covariance branch of lon_time, nlon = len(lon) in its other branch
FirstPassNames(c, st) ==
    [st EXCEPT !.refshape = TRUE,
               !.nlat = (c.fn = "lat_time" \/ c.cov),
               !.nlon = (c.fn = "lon_time" /\ ~c.cov)]

\* VV is the field of the file, or np.empty(shape=refshape) when VV is None
TimeLoopColumn(found) == IF found THEN "field" ELSE "empty"

\* one pass of 'for date, ii in zip(daterange, ...)'
TL_Date ==
    /\ InTimeLoop
    /\ ppc <= Len(cfg.daterange)
    /\ \E f \in BOOLEAN, f2 \in BOOLEAN :
        LET date == cfg.daterange[ppc]
            c1 == Call(IF cfg.cov THEN "cov" ELSE "diag", date, "", "E", f)
            c2 == Call("diag", date, "", "Ediff", f2)
            \* ii == 0: len(lat) of None, or VV.shape of None
            raise1 == ppc = 1 /\ ~f
            st == IF ppc = 1 THEN FirstPassNames(cfg, stash) ELSE stash
            \* np.mean(VV,axis=1) on the None of the difference experiment
            raise2 == cfg.diff /\ ~f2
            \* MM = np.zeros(shape=(nlat, ...)) or (nlon, ...): the name is unbound
            raise3 == ppc = 1 /\ ~(IF cfg.fn = "lat_time" THEN st.nlat ELSE st.nlon)
        IN  IF raise1
            THEN /\ calls' = Append(calls, c1)
                 /\ pstat' = "raised"
                 /\ UNCHANGED <<stash, ppc>>
            ELSE /\ calls' = IF cfg.diff THEN calls \o <<c1, c2>> ELSE Append(calls, c1)
                 /\ IF raise2 \/ raise3
                    THEN /\ pstat' = "raised"
                         /\ stash' = st
                         /\ ppc' = ppc
                    ELSE /\ pstat' = pstat
                         /\ stash' = [st EXCEPT !.MM = Append(@, TimeLoopColumn(f))]
                         /\ ppc' = ppc + 1
    /\ UNCHANGED <<cfg, arr, cur, dims, ops>>
    /\ UNCHANGED <<E, Ecaller, py, ident, hnum, DR, idx, pc, V, lat, lon, lev,
                   Vlist, Vmatrix, new_daterange, ret, printed>>

\* after the loop: plt.contourf(t,lat,MM,...); with no date MM was never bound
TL_Plot ==
    /\ InTimeLoop
    /\ ppc > Len(cfg.daterange)
    /\ pstat' = IF Len(cfg.daterange) = 0 THEN "raised" ELSE "done"
    /\ UNCHANGED <<cfg, arr, stash, cur, dims, ppc, ops>>
    /\ UNCHANGED d2aVars

TimeLoopNext == TL_Date \/ TL_Plot

SpecTimeLoop == TimeLoopInit /\ [][TimeLoopNext]_vars

\* ---------------------------------------------------------------- state_space_HCL_colormap
post_def_variables == {"Z3", "PS", "FLUT", "T", "Nsq", "Q", "O3"}

\* the calls explored: the entries of E the function reads, and whether a
\* difference experiment is given
ColormapCalls ==
    [fn : {"colormap"}, variable : {"T", "US"},
     extras : {"None", "MSE", "ensemble variance scaled", "MJO variance", "Correlation"},
     copystring : {"ensemble mean", "ensemble spread"},
     diagn : {"Prior", "anomaly.NODA", "climatological_std.NODA", "increment", "Increment"},
     Ediff : BOOLEAN, reverse : BOOLEAN]

ColormapInit ==
    /\ cfg \in ColormapCalls
    /\ stash = [colors_sequential |-> FALSE]
    /\ ppc = 1
    /\ pstat = "run"
    /\ ret = NoReturn
    /\ arr = <<>> /\ cur = "" /\ dims = <<>> /\ ops = <<>>
    /\ E = [exp_name |-> "NODA"] /\ Ecaller = E /\ py = 0 /\ ident = FALSE
    /\ hnum = "unset" /\ DR = <<>> /\ idx = 0 /\ pc = "idle"
    /\ V = Unbound /\ lat = Unbound /\ lon = Unbound /\ lev = Unbound
    /\ Vlist = <<>> /\ Vmatrix = <<>> /\ new_daterange = <<>>
    /\ printed = 0 /\ calls = <<>>

InColormap(n) == cfg.fn = "colormap" /\ pstat = "run" /\ ppc = n

\* every condition standing under 'Ediff == None'
TurnsOn_OnlyWithoutDifference(c) ==
    ~c.Ediff /\ (\/ c.variable \in post_def_variables
                 \/ c.extras \in {"MSE", "ensemble variance scaled", "MJO variance"}
                 \/ c.copystring = "ensemble spread"
                 \/ HasClimStd(c.diagn))

\* the conditions that turn the sequential map on
TurnsOn(c) ==
    \/ ~c.Ediff /\ c.variable \in post_def_variables
    \/ c.extras = "MSE" /\ ~c.Ediff
    \/ c.copystring = "ensemble spread" /\ ~c.Ediff
    \/ c.extras = "ensemble variance scaled" /\ ~c.Ediff
    \/ c.extras = "MJO variance"
    \/ HasClimStd(c.diagn)

\* the conditions that turn it back off
TurnsOff(c) ==
    \/ c.extras # "None" /\ c.extras = "Correlation"      \* 'Correlation' in E['extras']
    \/ HasAnomaly(c.diagn)
    \/ Lower(c.diagn) = "increment"

CM_TurnOn ==
    /\ InColormap(1)
    /\ stash' = [stash EXCEPT !.colors_sequential = TurnsOn(cfg)]
    /\ ppc' = 2
    /\ UNCHANGED <<cfg, arr, cur, dims, pstat, ops>>
    /\ UNCHANGED d2aVars

CM_TurnOff ==
    /\ InColormap(2)
    /\ stash' = [stash EXCEPT !.colors_sequential = IF TurnsOff(cfg) THEN FALSE ELSE @]
    /\ ppc' = 3
    /\ UNCHANGED <<cfg, arr, cur, dims, pstat, ops>>
    /\ UNCHANGED d2aVars

\* return colors,cmap,type
CM_Return ==
    /\ InColormap(3)
    /\ LET type == IF stash.colors_sequential THEN "sequential" ELSE "divergent"
           colors == IF cfg.reverse THEN "reversed" ELSE "colors"
       IN  ret' = [tuple |-> TRUE, items |-> <<colors, "cmap", type>>]
    /\ pstat' = "done"
    /\ UNCHANGED <<cfg, arr, stash, cur, dims, ppc, ops>>
    /\ UNCHANGED d2aRest
    /\ UNCHANGED printed

ColormapNext == CM_TurnOn \/ CM_TurnOff \/ CM_Return

SpecColormap == ColormapInit /\ [][ColormapNext]_vars

\* ---------------------------------------------------------------- to_TPbased: the axes
\* The shapes to_TPbased works on.  Vmatrix is five-dimensional (the loops index
\* S[0], S[1], S[2], S[4] and slice axis 3); lev is the coordinate of its axis
\* 3; the tropopause heights come from DART_diagn_to_array for the 2-D variable
\* ptrop on the same grid, i.e. with the shape of Vmatrix less its level axis.
\* Axes are counted from 0 as in the code.
TPShapes == [0..4 -> 1..(MaxDim + 1)]

\* the axis the columns are cut along: Vmatrix[ii,jj,kk,:,ll], Snew[3]
ColumnAxis == 3

TPAxisInit ==
    /\ cfg \in [fn : {"to_TPbased_axes"}, shape : TPShapes]
    /\ stash = [levdim |-> -1, Z3d |-> <<>>, Snew |-> <<>>]
    /\ ppc = 1
    /\ pstat = "run"
    /\ arr = <<>> /\ cur = "" /\ dims = <<>> /\ ops = <<>>
    /\ E = [exp_name |-> "NODA"] /\ Ecaller = E /\ py = 0 /\ ident = FALSE
    /\ hnum = "unset" /\ DR = <<>> /\ idx = 0 /\ pc = "idle"
    /\ V = Unbound /\ lat = Unbound /\ lon = Unbound /\ lev = Unbound
    /\ Vlist = <<>> /\ Vmatrix = <<>> /\ new_daterange = <<>>
    /\ ret = NoReturn /\ printed = 0 /\ calls = <<>>

\* the level axis taken to be the column axis itself
IndexOf_ColumnAxis(shape, n) == ColumnAxis

\* list(Vmatrix.shape).index(nlev): the first axis of that length
IndexOf(shape, n) == Min({ i \in DOMAIN shape : shape[i] = n })

\* the shape of the 2-D field: that of Vmatrix without its level axis
ShapeOfZ(shape) == [i \in 0..3 |-> IF i < ColumnAxis THEN shape[i] ELSE shape[i + 1]]

\* np.expand_dims(Z, axis=levdim)
ExpandDims(zs, d) ==
    [i \in 0..4 |-> IF i < d THEN zs[i] ELSE IF i = d THEN 1 ELSE zs[i - 1]]

\* np.broadcast_to(Zx, Vmatrix.shape) raises unless every axis agrees or is 1
Broadcastable(zs, shape) == \A i \in DOMAIN shape : zs[i] = shape[i] \/ zs[i] = 1

InTPAxis(n) == cfg.fn = "to_TPbased_axes" /\ pstat = "run" /\ ppc = n

\* the pass of the loop over EE for the tropopause heights
TPA_Broadcast ==
    /\ InTPAxis(1)
    /\ LET nlev == cfg.shape[ColumnAxis]           \* nlev = len(lev)
           levdim == IndexOf(cfg.shape, nlev)
           Zx == ExpandDims(ShapeOfZ(cfg.shape), levdim)
       IN  IF Broadcastable(Zx, cfg.shape)
           THEN /\ stash' = [stash EXCEPT !.levdim = levdim, !.Z3d = cfg.shape]
                /\ ppc' = 2
                /\ pstat' = pstat
           ELSE /\ stash' = [stash EXCEPT !.levdim = levdim]
                /\ ppc' = ppc
                /\ pstat' = "raised"
    /\ UNCHANGED <<cfg, arr, cur, dims, ops>>
    /\ UNCHANGED d2aVars

\* Snew = list(Vmatrix.shape); Snew[3] = len(zTPgrid); the loops; the return
TPA_Resample ==
    /\ InTPAxis(2)
    /\ stash' = [stash EXCEPT !.Snew = [cfg.shape EXCEPT ![ColumnAxis] = Cardinality(zTPgrid)]]
    /\ ppc' = 3
    /\ pstat' = "done"
    /\ UNCHANGED <<cfg, arr, cur, dims, ops>>
    /\ UNCHANGED d2aVars

TPAxisNext == TPA_Broadcast \/ TPA_Resample

SpecTPAxis == TPAxisInit /\ [][TPAxisNext]_vars

\* ================================================================ claims
\* the call went through the date loop (not the climatology subsystem)
Looped == hnum # "unset"
ReturnedArray == pc = "returned" /\ Looped /\ ~ret.none
AllNone(l) == \A i \in 1..Len(l) : l[i] = None

\* C1: whenever DART_diagn_to_array returns a non-None array, the length of
\* its trailing (time) axis equals len(new_daterange), monthly variables
\* with several dates of one month included.
C1_TimeAxisMatchesDates ==
    ReturnedArray => Len(ret.Vmatrix) = Len(ret.new_daterange)

\* C2: every slice Vmatrix[..., i] of the returned array is the field of a
\* loader call made for the date new_daterange[i] (stated here for the dates
\* iterated as given, where a date of the range is the date the loader gets).
C2_SliceFromItsDate ==
    (ReturnedArray /\ hnum # "0") =>
        \A i \in 1..Len(ret.Vmatrix) :
            /\ i <= Len(ret.new_daterange)
            /\ ret.Vmatrix[i].date = ret.new_daterange[i]

\* C3: if the router yields a field for some dates and None for the others,
\* the call returns one slice per date that yielded a field and new_daterange
\* is exactly those dates, wherever the missing dates sit. So the call never
\* raises after a field was found, never gives up before every date of the
\* range was routed, and what it returns is the fields found, in order.
C3_MissingDatesDropped ==
    (Looped /\ hnum # "0") =>
        /\ (pc = "raised" => AllNone(Vlist))
        /\ (pc = "returned" /\ ret.none => Len(Vlist) = Len(DR))
        /\ (pc = "returned" /\ ~ret.none =>
                /\ Len(ret.Vmatrix) = Len(ret.new_daterange)
                /\ \A i \in 1..Len(DR) :
                     Vlist[i] # None =>
                        \E j \in 1..Len(ret.Vmatrix) :
                            /\ j <= Len(ret.new_daterange)
                            /\ ret.Vmatrix[j] = Vlist[i]
                            /\ ret.new_daterange[j] = DR[i])

\* C4: if the router yields None for every date of a non-empty date range,
\* the call prints its message and returns (None, None, None, None, None);
\* it does not raise and does not go on.
C4_AllMissingReturnsNone5 ==
    (Len(Vlist) > 0 /\ AllNone(Vlist)) =>
        /\ pc = "returned"
        /\ ret.none /\ ret.Vmatrix = <<None>> /\ ret.lat = None
        /\ ret.lon = None /\ ret.lev = None
        /\ printed = 1

\* a three-date range whose first routed date yielded None, and the call returned
C4_Witness ==
    /\ pc = "returned" /\ ret.none
    /\ Len(E.daterange) = 3
    /\ Len(Vlist) > 0 /\ AllNone(Vlist)

\* C5: when the assimilation diagnostic-file loader returns None for a control
\* variable on some date, the next loader called is the model-history loader,
\* for the same date, and the field recorded for that date is what it returns;
\* for every control variable and every date, not only US, VS and Nsq (stated
\* here for the control variables other than these three).
C5_DiagMissingFallsBackToHistory ==
    \A k \in 1..Len(calls) :
        (calls[k].ldr = "diag" /\ ~calls[k].found
                /\ calls[k].var \in dart_control_variables_list \ {"US", "VS", "Nsq"}) =>
            /\ k < Len(calls)
            /\ calls[k + 1].ldr = "hist"
            /\ calls[k + 1].date = calls[k].date
            /\ \E i \in 1..Len(Vlist) :
                 DR[i] = calls[k].date /\ Vlist[i] = Field(calls[k + 1])

\* C6: with diagn 'covariance' or 'correlation' (any case) and no reanalysis
\* routing, the field recorded for each date is the matrix the covariance-file
\* loader returned for that date (Cov for covariance, Corr for correlation),
\* also for an assimilation-output control variable.
C6_CovarianceFieldKept ==
    (Looped /\ (Lower(E.diagn) = "covariance" \/ Lower(E.diagn) = "correlation")
            /\ ~IsERA(E.exp_name)) =>
        \A i \in 1..Len(Vlist) :
            \E k \in 1..Len(calls) :
                /\ calls[k].ldr = "cov"
                /\ calls[k].date = DR[i]
                /\ calls[k].part = (IF Lower(E.diagn) = "covariance" THEN "Cov" ELSE "Corr")
                /\ Vlist[i] = Field(calls[k])

\* ---------------------------------------------------------------- plot claims
Spatial == {"lon", "lat", "lev"}
Hits(o) == { i \in 1..Len(o.shape) : o.shape[i] = o.n }
OpsOf(kinds) == { k \in 1..Len(ops) : ops[k].k \in kinds }

\* C7 as stated: when more than one axis has the matching length, the matcher
\* loop chooses the first one in storage order.
C7_FirstMatchWins ==
    \A k \in OpsOf(Spatial) :
        (ops[k].matched /\ Cardinality(Hits(ops[k])) > 1) => ops[k].axis = Min(Hits(ops[k]))

\* C7 amended: when more than one axis has the matching length, the matcher
\* loop chooses the last one in storage order.
C7_LastMatchWins ==
    \A k \in OpsOf(Spatial) :
        (ops[k].matched /\ Cardinality(Hits(ops[k])) > 1) => ops[k].axis = Max(Hits(ops[k]))

\* a matcher loop has run on a shape with two axes of the length looked for
C7_Witness ==
    \E k \in OpsOf(Spatial) :
        ops[k].matched /\ Cardinality(Hits(ops[k])) > 1 /\ ops[k].axis # Min(Hits(ops[k]))

\* the reductions done on one array, in order: <<kind, axis>>
RECURSIVE ReductionsOn(_, _)
ReductionsOn(tag, k) ==
    IF k = 0 THEN <<>>
    ELSE ReductionsOn(tag, k - 1)
            \o (IF ops[k].on = tag /\ ops[k].k \in Spatial \cup {"time"}
                THEN <<<<ops[k].k, ops[k].axis>>>> ELSE <<>>)

ReducedThenSubtracted ==
    /\ \A k \in OpsOf({"sub"}) : \A j \in OpsOf(Spatial \cup {"time"}) : j < k
    /\ pstat = "done" => ReductionsOn("E", Len(ops)) = ReductionsOn("Ediff", Len(ops))

SubtractedThenReduced ==
    /\ \A j \in OpsOf(Spatial \cup {"time"}) : \E k \in OpsOf({"sub"}) : k < j
    /\ pstat = "done" => OpsOf({"sub"}) # {}

\* C8 as stated: with Ediff, globe, lev_time, lat, lev_lat and profiles reduce
\* the two fields separately over the same axes and subtract the reduced fields.
C8_ReduceThenSubtract ==
    (cfg.diff /\ cfg.fn \in {"globe", "lev_time", "lat", "lev_lat", "profiles"}) =>
        ReducedThenSubtracted

\* C8 amended: with Ediff, globe, lev_time and lat reduce the two fields
\* separately over the same axes and subtract the reduced fields; lev_lat and
\* profiles subtract the two unreduced arrays and reduce the difference.
C8_ReduceThenSubtractExceptLevLatProfiles ==
    /\ (cfg.diff /\ cfg.fn \in {"globe", "lev_time", "lat"}) => ReducedThenSubtracted
    /\ (cfg.diff /\ cfg.fn \in {"lev_lat", "profiles"}) => SubtractedThenReduced

\* plot_diagnostic_lev_lat has subtracted the unreduced arrays and reduced the
\* difference over time and longitude
C8_Witness ==
    /\ cfg.fn = "lev_lat" /\ cfg.diff /\ pstat = "done"
    /\ \E k \in OpsOf({"sub"}) : \E j \in OpsOf({"lon"}) : k < j /\ ops[j].on = "diff"

C9Fns == {"globe", "lev_lat", "lev_lat_quiver", "profiles", "lat"}

\* C9 as stated: in the functions that collapse the time axis, the time average
\* comes after every longitude, latitude and level reduction.
C9_TimeAveragedLast ==
    cfg.fn \in C9Fns =>
        \A k \in OpsOf({"time"}) : \A j \in OpsOf(Spatial) : j < k

\* C9 amended: in these functions the time average is the first reduction of
\* the field, not the last: every longitude, latitude and level reduction of
\* the field (or of the difference field) comes after the time average of that
\* array, with no other load in between. Set apart are plot_diagnostic_globe
\* when a single date was returned (no time average is taken) and the pressure
\* array that lev_lat_quiver averages over longitude for the scaling.
C9_TimeAveragedFirst ==
    cfg.fn \in C9Fns =>
        /\ \A k \in OpsOf(Spatial) :
            \/ ops[k].on \in {"P", "Pdiff"}
            \/ cfg.fn = "globe" /\ cfg.ntime = 1
            \/ \E j \in OpsOf({"time"}) :
                /\ j < k /\ ops[j].on = ops[k].on
                /\ \A i \in (j + 1)..(k - 1) : ops[i].k # "load"
        /\ \A k \in OpsOf({"time"}) :
            \A j \in OpsOf(Spatial) :
                (j < k /\ ops[j].on = ops[k].on) =>
                    \E i \in (j + 1)..(k - 1) : ops[i].k = "load"

\* plot_diagnostic_lat has averaged over time and then over longitude and level
C9_Witness ==
    /\ cfg.fn = "lat" /\ pstat = "done"
    /\ \E k \in OpsOf({"time"}) : \E j \in OpsOf({"lon"}) : \E i \in OpsOf({"lev"}) :
            k < j /\ j < i

\* ---------------------------------------------------------------- dictionary claims
\* C10: no function of the pipeline changes the variable or copystring of the
\* experiment dictionary its caller passed in: when the call has returned,
\* the caller's dictionaries (E, and Ediff where one is given) hold the
\* variable and copystring they held at the call.
C10_CallerDictUnchanged ==
    pstat = "done" =>
        /\ E.variable = Ecaller.variable
        /\ E.copystring = Ecaller.copystring
        /\ stash.Ediff.variable = stash.Ediffcaller.variable
        /\ stash.Ediff.copystring = stash.Ediffcaller.copystring

\* ---------------------------------------------------------------- loader claims
Selected(cs) == HasMember(cs) \/ cs \in {"ensemble mean", "ensemble std", "ensemble"}

\* the loader was asked for one member, the mean or the std and had no field
FieldMissing ==
    /\ E.copystring \in {"ensemble member 1", "ensemble mean", "ensemble std"}
    /\ Len(calls) = 1 /\ ~calls[1].found

\* C11: compute_DART_diagn_from_model_h_files signals failure by value: when
\* the copystring matches no selector, or the history loader has no field for
\* the member, mean or std asked for, the call ends by printing a message and
\* returning (None, None, None, None); it does not raise.
C11_FailureByValue ==
    (pstat \in {"done", "raised"} /\ (~Selected(E.copystring) \/ FieldMissing)) =>
        /\ pstat = "done"
        /\ ret = None4
        /\ printed > 0

\* C12: plot_diagnostic_lev_lat with variable 'PS' (or 'FLUT') prints one
\* message and returns the pair (None, None); no array is loaded or reduced
\* before it returns.
C12_LevLat2dReturnsNonePair ==
    (cfg.fn = "lev_lat" /\ cfg.var \in var2d /\ pstat # "run") =>
        /\ pstat = "rejected"
        /\ printed = 1
        /\ ops = <<>>
        /\ ret = [tuple |-> TRUE, items |-> <<"None", "None">>]

\* ---------------------------------------------------------------- router claims
Months(dr) == { dr[i][1] : i \in 1..Len(dr) }

\* C13: for a monthly variable (history_file_lookup returns 0) the dates
\* iterated are exactly one stamp per distinct month of the requested range,
\* each on the first day of its month; otherwise (None or a non-zero number)
\* the dates iterated are the requested range unchanged, in the given order.
C13_MonthlyCollapse ==
    Looped =>
        IF hnum = "0"
        THEN /\ Len(DR) = Cardinality(Months(E.daterange))
             /\ Months(DR) = Months(E.daterange)
             /\ \A i \in 1..Len(DR) : DR[i][2] = 1
        ELSE DR = E.daterange

\* two dates of one month were collapsed into one stamp
C13_Witness ==
    /\ hnum = "0" /\ pc = "returned" /\ ~ret.none
    /\ Len(E.daterange) = MaxLen
    /\ Len(DR) < Len(E.daterange) /\ Len(DR) > 1

\* the date at position i of the loop reached the model-history fallback:
\* the DART diagnostic file was missing, or the variable asked for was no
\* longer a control variable so that no diagnostic file was looked for
FallbackReached(i) ==
    \/ \E k \in 1..Len(calls) :
          calls[k].ldr = "diag" /\ calls[k].date = DR[i] /\ ~calls[k].found
    \/ ~\E k \in 1..Len(calls) : calls[k].ldr = "diag" /\ calls[k].date = DR[i]

\* C14: a request for 'US' or 'VS' that reaches the model-history fallback is
\* passed to the model-history loader as 'U' or 'V', on every date of the
\* range on which the fallback is reached (here with the variable string the
\* interned literal, an experiment that is not a reanalysis, and a diagnostic
\* other than covariance or correlation).
C14_StaggeredWindsTranslated ==
    (Looped /\ Ecaller.variable \in {"US", "VS"} /\ ident /\ ~IsERA(E.exp_name)
        /\ Lower(E.diagn) \notin {"covariance", "correlation"}) =>
        \A i \in 1..Len(Vlist) :
            FallbackReached(i) =>
                \E k \in 1..Len(calls) :
                    /\ calls[k].ldr = "hist"
                    /\ calls[k].date = DR[i]
                    /\ calls[k].var = (IF Ecaller.variable = "US" THEN "U" ELSE "V")

\* C15: if exactly one date of a three-date range yields None, the call neither
\* raises nor gives up, and the time mean a plot function takes of the
\* returned array is the plain mean of the fields of the two present dates.
C15_OneMissingOfThree ==
    (Looped /\ hnum # "0" /\ Len(E.daterange) = 3 /\ Cardinality(Bad(Vlist)) = 1) =>
        /\ pc # "raised"
        /\ pc = "returned" =>
              /\ Len(Vlist) = 3
              /\ TimeMean(ret) = [raised |-> FALSE, of |-> NotNone(Vlist), n |-> 2]

\* ---------------------------------------------------------------- to_TPbased claims
\* C16: for every column, the output on the grid 6, 7, ..., 20 km (15 points)
\* is NaN at every grid height that is not strictly between the minimum and
\* the maximum of the column's heights, and is the column's cubic interpolant
\* at every grid height strictly between them: nothing is extrapolated.
C16_NaNOutsideColumnRange ==
    cfg.fn = "to_TPbased" =>
        /\ Cardinality(zTPgrid) = 15
        /\ \A j \in 1..(ppc - 1) : \A z \in zTPgrid :
              LET col == cfg.ZT[j]
                  lo == Min(SeqRange(col))
                  hi == Max(SeqRange(col))
              IN  arr[j][z] = IF lo < z /\ z < hi THEN Interp(col, z) ELSE NaN

\* a column that starts on the lowest grid height and ends on the highest has
\* been resampled (NaN on its two end heights, values strictly inside), and
\* so has a column that starts above the lowest grid height
C16_Witness ==
    /\ cfg.fn = "to_TPbased" /\ pstat = "done"
    /\ \E j \in 1..Len(cfg.ZT) :
          /\ Min(SeqRange(cfg.ZT[j])) = 6 /\ Max(SeqRange(cfg.ZT[j])) = 20
          /\ arr[j][6] = NaN /\ arr[j][20] = NaN
          /\ arr[j][7] = Interp(cfg.ZT[j], 7)
    /\ \E j \in 1..Len(cfg.ZT) :
          /\ Min(SeqRange(cfg.ZT[j])) = 7
          /\ arr[j][6] = NaN /\ arr[j][7] = NaN
          /\ arr[j][8] = Interp(cfg.ZT[j], 8)

\* ---------------------------------------------------------------- covariance file claims
FileVarDims(name) == { v.dims : v \in { w \in stash.file.vars : w.name = name } }

C18_ClimatologyDelegated ==
    (IsClimDiagn(E.diagn) /\ pc # "call") =>
        /\ pc = "returned" /\ ~Looped /\ Vlist = <<>>
        /\ Len(calls) = (IF HasClimStd(E.diagn) THEN 2 ELSE 1)
        /\ calls[1].ldr = "ano"
        /\ \A k \in 2..Len(calls) : calls[k].ldr = "stds"
        /\ ret.lat = calls[Len(calls)] /\ ret.lon = calls[Len(calls)]
        /\ ret.lev = calls[Len(calls)]
        /\ SeqRange(ret.new_daterange) \subseteq SeqRange(E.daterange)
        /\ Len(ret.Vmatrix) = 1
        /\ ret.Vmatrix[1].part =
              (CASE HasClimatology(E.diagn) -> "Xclim"
                 [] HasAnomaly(E.diagn) -> "AA"
                 [] HasClimStd(E.diagn) -> "S.reshape(AA.shape)")

\* a climatology was asked for and handed back with a filtered date range
C18_Witness ==
    /\ HasClimatology(E.diagn) /\ pc = "returned"
    /\ ret.Vmatrix[1].part = "Xclim"
    /\ Len(E.daterange) = MaxLen /\ Len(ret.new_daterange) < MaxLen

\* C19: for a transformed-mean diagnostic (VSTAR, WSTAR, FPHI, FZ, DELF) or a
\* dynamical heating rate (VTY, WS), compared after upper-casing, in an
\* experiment not routed to the reanalysis loader, the field of every date is
\* the one the transformed-mean loader gave for that date, and lon is None.
C19_TEMRouted ==
    (Looped /\ Upper(Ecaller.variable) \in tem_variables_list \cup dynamical_heating_rates_list
        /\ ~(IsERA(E.exp_name) /\ Ecaller.variable \in era_variables_list)) =>
        /\ \A i \in 1..Len(Vlist) :
              \E k \in 1..Len(calls) :
                  /\ calls[k].ldr = "TEM" /\ calls[k].date = DR[i]
                  /\ Vlist[i] = Field(calls[k])
        /\ Len(Vlist) > 0 => lon = None
        /\ pc = "returned" => ret.lon = None

\* a heating rate asked for in lower case came back from the transformed-mean
\* loader for all dates of the range
C19_Witness ==
    /\ Ecaller.variable = "ws" /\ pc = "returned" /\ ~ret.none
    /\ Len(ret.Vmatrix) = MaxLen /\ ret.lon = None
    /\ \A i \in 1..MaxLen : ret.Vmatrix[i].ldr = "TEM" /\ ret.Vmatrix[i].date = DR[i]

\* the loaders are deterministic: asked the same thing for the same date in
\* either call, a loader finds its file both times or neither time
LoadersDeterministic ==
    \A i, j \in 1..Len(calls) :
        (calls[i].ldr = calls[j].ldr /\ calls[i].date = calls[j].date
            /\ calls[i].var = calls[j].var /\ calls[i].part = calls[j].part)
        => calls[i].found = calls[j].found

\* the lookup of the history file number answers as it did in the first call,
\* and the months both calls loop over come in the same relative order
SameIteration ==
    /\ hnum = stash.hnum
    /\ \A i, j \in 1..Len(DR) : \A k, l \in 1..Len(stash.DR) :
           (DR[i] = stash.DR[k] /\ DR[j] = stash.DR[l] /\ i < j) => k < l

SecondCallOver == cfg.fn = "rerun" /\ cfg.run = 2 /\ pc \in {"returned", "raised"}

\* C20: a second call on the same dictionary, with daterange set to the
\* new_daterange of the first and loaders that answer as they did before,
\* returns the array and the new_daterange that the first call returned.
C20_RerunIsFixedPoint ==
    (SecondCallOver /\ LoadersDeterministic /\ SameIteration) =>
        /\ pc = "returned"
        /\ ret.Vmatrix = stash.first.Vmatrix
        /\ ret.new_daterange = stash.first.new_daterange

PathOver(which) == stash[which].raised \/ stash[which].step = 2

\* C21: on a field without NaN the longitude mean followed by the latitude
\* mean and the latitude mean followed by the longitude mean, each axis found
\* by its length, end with the same field, for every combination of axis lengths.
C21_MeansCommute ==
    (cfg.fn = "order" /\ PathOver("lon_lat") /\ PathOver("lat_lon")) =>
        /\ ~stash.lon_lat.raised /\ ~stash.lat_lon.raised
        /\ stash.lon_lat.arr = stash.lat_lon.arr

C23_HovmoellerDifference ==
    (cfg.fn = "hovmoeller" /\ cfg.diff /\ ppc > 3 /\ pstat \in {"done", "raised"}) =>
        /\ pstat = "done"
        /\ \E i \in 1..Len(ops) : ops[i].k = "sub"

\* the difference experiment, where there is one, had its file for the date
EdiffFound(d) ==
    cfg.diff => \E k \in 1..Len(calls) :
                    calls[k].part = "Ediff" /\ calls[k].date = d /\ calls[k].found

\* the pass of DR[i] wrote a placeholder column and the loop went on
Placeheld(i) == i <= Len(stash.MM) /\ stash.MM[i] = "empty"

\* C24: in plot_diagnostic_lat_time and plot_diagnostic_lon_time a date whose
\* file is not found gets a placeholder of the reference shape and the loop
\* goes on to the next date, for every date of the range, the first included.
C24_MissingDatePlaceheld ==
    cfg.fn \in {"lat_time", "lon_time"} =>
        \A i \in 1..Len(cfg.daterange) :
            (/\ \E k \in 1..Len(calls) :
                   /\ calls[k].part = "E" /\ calls[k].date = cfg.daterange[i]
                   /\ ~calls[k].found
             /\ EdiffFound(cfg.daterange[i]))
            => (pstat = "raised" => ppc > i) /\ (ppc > i => Placeheld(i))

C26_EmptyRangeReturnsNones ==
    (Looped /\ Len(Ecaller.daterange) = 0 /\ pc \in {"returned", "raised"}) =>
        /\ pc = "returned"
        /\ ret = None5
        /\ printed = 1

\* the dates whose fields are the slices of the returned array
RetainedDates == { ret.Vmatrix[i].date : i \in 1..Len(ret.Vmatrix) }

\* C27: when DART_diagn_to_array returns an array, the lat, lon and lev it
\* returns come from a loader call for a retained date, never from the call
\* for a dropped date.
C27_CoordinatesOfRetainedDate ==
    (Looped /\ pc = "returned" /\ ~ret.none) =>
        \A c \in {ret.lat, ret.lon, ret.lev} :
            c # None => c.date \in RetainedDates

\* C28: in plot_diagnostic_hovmoeller and plot_diagnostic_lev_time the axis
\* reduced as latitude or as longitude is never the trailing time axis of the
\* array, whatever the grid size and the number of dates.
C28_TimeAxisNeverReducedAsLatLon ==
    cfg.fn \in {"hovmoeller", "lev_time"} =>
        \A i \in 1..Len(ops) :
            ops[i].k \in {"lat", "lon"} => ops[i].role # "time"

\* C29: for every array to_TPbased accepts, the axis it resamples, and whose
\* length becomes that of the height grid, is the axis it took for the level
\* axis when it broadcast the tropopause heights.
C29_ResampledAxisIsLevelAxis ==
    (cfg.fn = "to_TPbased_axes" /\ pstat = "done" /\ cfg.shape[ColumnAxis] > 1) =>
        /\ stash.levdim = ColumnAxis
        /\ \A i \in DOMAIN cfg.shape :
               stash.Snew[i] # cfg.shape[i] => i = stash.levdim

====
